---- MODULE Spec2Model ----
(***************************************************************************)
(* Bid-Finder: the opportunity store (models.py), the relevance scorer     *)
(* (scorer.py), the run trigger of the dashboard (app.py) and the          *)
(* orchestrator (main.py), as state machines.                              *)
(*                                                                         *)
(* Text values whose characters matter (titles, due dates) are sequences   *)
(* of one-character strings; other text values are plain strings.          *)
(***************************************************************************)
EXTENDS Integers, Sequences, FiniteSets, TLC

VARIABLES
    rows,        \* table opportunities: a set of row records
    nextId,      \* next value of the AUTOINCREMENT sequence of opportunities
    lastrowid,   \* last_insert_rowid of the open connection (cursor.lastrowid)
    now,         \* datetime.now() at the next write; every write takes time
    updates,     \* the number of status updates made so far
    op,          \* the last operation: its name, arguments and return value
    scoreIn,     \* the record handed to RelevanceScorer.score
    scoreOut,    \* its sub-scores and total, once scored
    run,         \* run_scrapers: its position, the records still to store, its counters
    search_runs, \* the search_runs table
    changed,     \* the keys whose status the user has set to other than 'new'
    previous,    \* the scored results of the run before, and the keys it left stored
    scan,        \* run_scrapers' loop over the sources
    _scraper_state,  \* app.py's global: running, summary, error
    request,     \* the answer each POST /api/run got
    thread       \* the position of the background thread each request started

storeVars == <<rows, nextId, lastrowid, now, updates, op>>

scoreVars == <<scoreIn, scoreOut>>

pipeVars == <<run, search_runs, changed, previous, scan>>

apiVars == <<_scraper_state, request, thread>>

vars == <<rows, nextId, lastrowid, now, updates, op, scoreIn, scoreOut,
          run, search_runs, changed, previous, scan, _scraper_state, request, thread>>

(***************************************************************************)
(* Bounds of the model.                                                    *)
(***************************************************************************)
MaxId == 2
MaxUpdates == 1
MaxMatches == 8
MaxRuns == 3
MaxRequests == 3
MaxQueries == 2

(***************************************************************************)
(* Characters.                                                             *)
(***************************************************************************)
\* Python None
None == <<"None">>

\* the characters used, in code-point order (SQLite compares TEXT bytewise)
AsciiOrder ==
    <<" ","&","(",")","-","/","0","1","2","3","4","5","6","7","8","9",":",
      "A","B","C","D","E","F","G","H","I","J","K","L","M","N","O","P","Q",
      "R","S","T","U","V","W","X","Y","Z",
      "a","b","c","d","e","f","g","h","i","j","k","l","m","n","o","p","q",
      "r","s","t","u","v","w","x","y","z","|","ç">>

Ord(c) == CHOOSE i \in 1..Len(AsciiOrder) : AsciiOrder[i] = c

Digits == <<"0","1","2","3","4","5","6","7","8","9">>

IsDigit(c) == \E i \in 1..10 : Digits[i] = c

DigitVal(c) == (CHOOSE i \in 1..10 : Digits[i] = c) - 1

IsUpper(c) == Ord(c) >= Ord("A") /\ Ord(c) <= Ord("Z")

IsLowerAlnum(c) == IsDigit(c) \/ (Ord(c) >= Ord("a") /\ Ord(c) <= Ord("z"))

IsSpace(c) == c = " "

\* str.lower() on one character
Lower(c) == IF IsUpper(c) THEN AsciiOrder[Ord(c) - Ord("A") + Ord("a")] ELSE c

\* s[:n]
Prefix(s, n) == SubSeq(s, 1, IF Len(s) < n THEN Len(s) ELSE n)

\* bytewise s < t, the comparison of two TEXT values in SQL
RECURSIVE StrLess(_, _)
StrLess(s, t) ==
    IF t = <<>> THEN FALSE
    ELSE IF s = <<>> THEN TRUE
    ELSE IF Head(s) = Head(t) THEN StrLess(Tail(s), Tail(t))
    ELSE Ord(Head(s)) < Ord(Head(t))

(***************************************************************************)
(* _normalize_title: lowercase, punctuation to blanks, collapse and strip  *)
(* whitespace.                                                             *)
(***************************************************************************)
\* t.lower() followed by re.sub(r'[^a-z0-9\s]', ' ', t)
LowerNoPunct(t) ==
    [i \in 1..Len(t) |->
        LET c == Lower(t[i])
        IN  IF IsLowerAlnum(c) \/ IsSpace(c) THEN c ELSE " "]

\* re.sub(r'\s+', ' ', t)
RECURSIVE CollapseSpaces(_)
CollapseSpaces(t) ==
    IF t = <<>> THEN <<>>
    ELSE IF IsSpace(Head(t))
         THEN IF Tail(t) # <<>> /\ IsSpace(Head(Tail(t)))
              THEN CollapseSpaces(Tail(t))
              ELSE <<" ">> \o CollapseSpaces(Tail(t))
         ELSE <<Head(t)>> \o CollapseSpaces(Tail(t))

\* str.strip() of a text whose whitespace runs are already single blanks
Strip(t) ==
    LET a == IF t # <<>> /\ IsSpace(Head(t)) THEN Tail(t) ELSE t
    IN  IF a # <<>> /\ IsSpace(a[Len(a)]) THEN SubSeq(a, 1, Len(a) - 1) ELSE a

_normalize_title(title) == Strip(CollapseSpaces(LowerNoPunct(title)))

(***************************************************************************)
(* Dates: datetime.strptime for the formats the store uses.                *)
(***************************************************************************)
NoDate == <<>>

RECURSIVE ToInt(_)
ToInt(ds) == IF ds = <<>> THEN 0 ELSE 10 * ToInt(SubSeq(ds, 1, Len(ds) - 1)) + DigitVal(ds[Len(ds)])

AllDigits(ds) == ds # <<>> /\ \A i \in 1..Len(ds) : IsDigit(ds[i])

\* s.split(sep)
RECURSIVE Split(_, _)
Split(s, sep) ==
    IF \A i \in 1..Len(s) : s[i] # sep THEN <<s>>
    ELSE LET k == CHOOSE i \in 1..Len(s) : s[i] = sep /\ \A j \in 1..(i - 1) : s[j] # sep
         IN  <<SubSeq(s, 1, k - 1)>> \o Split(SubSeq(s, k + 1, Len(s)), sep)

IsLeap(y) == (y % 4 = 0 /\ y % 100 # 0) \/ y % 400 = 0

DaysInMonth(y, m) ==
    IF m = 2 THEN (IF IsLeap(y) THEN 29 ELSE 28)
    ELSE IF m \in {4, 6, 9, 11} THEN 30 ELSE 31

\* the date <<y, m, d>> of the fields, or NoDate where strptime raises ValueError
DateOf(ys, ms, ds) ==
    IF /\ AllDigits(ys) /\ Len(ys) = 4 /\ ToInt(ys) >= 1
       /\ AllDigits(ms) /\ Len(ms) <= 2 /\ ToInt(ms) >= 1 /\ ToInt(ms) <= 12
       /\ AllDigits(ds) /\ Len(ds) <= 2 /\ ToInt(ds) >= 1
       /\ ToInt(ds) <= DaysInMonth(ToInt(ys), ToInt(ms))
    THEN <<ToInt(ys), ToInt(ms), ToInt(ds)>>
    ELSE NoDate

\* datetime.strptime(s, fmt) for fmt in %Y-%m-%d, %m/%d/%Y, %m-%d-%Y
strptime(s, fmt) ==
    LET sep == IF fmt = "%m/%d/%Y" THEN "/" ELSE "-"
        p == Split(s, sep)
    IN  IF Len(p) # 3 THEN NoDate
        ELSE IF fmt = "%Y-%m-%d" THEN DateOf(p[1], p[2], p[3])
        ELSE DateOf(p[3], p[1], p[2])

\* d1 < d2 for two dates
DateLess(d1, d2) ==
    \/ d1[1] < d2[1]
    \/ d1[1] = d2[1] /\ d1[2] < d2[2]
    \/ d1[1] = d2[1] /\ d1[2] = d2[2] /\ d1[3] < d2[3]

\* datetime.now().date()
Today == <<2024, 6, 15>>

Pad2(n) == <<Digits[(n \div 10) + 1], Digits[(n % 10) + 1]>>

Pad4(n) == Pad2(n \div 100) \o Pad2(n % 100)

\* d.strftime("%Y-%m-%d")
strftime(d) == Pad4(d[1]) \o <<"-">> \o Pad2(d[2]) \o <<"-">> \o Pad2(d[3])

RECURSIVE DaysBeforeMonth(_, _)
DaysBeforeMonth(y, m) == IF m = 1 THEN 0 ELSE DaysBeforeMonth(y, m - 1) + DaysInMonth(y, m - 1)

\* date.toordinal()
toordinal(d) ==
    365 * (d[1] - 1) + ((d[1] - 1) \div 4) - ((d[1] - 1) \div 100) + ((d[1] - 1) \div 400)
      + DaysBeforeMonth(d[1], d[2]) + d[3]

\* s.lower()
LowerStr(s) == [i \in 1..Len(s) |-> Lower(s[i])]

\* sub in s
Contains(s, sub) ==
    \E i \in 0..(Len(s) - Len(sub)) : SubSeq(s, i + 1, i + Len(sub)) = sub

\* s.startswith(prefix)
StartsWith(s, prefix) == Len(s) >= Len(prefix) /\ SubSeq(s, 1, Len(prefix)) = prefix

\* s.replace(" county", "") of a lowercased county name that ends in it
DropCountySuffix(s) ==
    IF Len(s) >= 7 /\ SubSeq(s, Len(s) - 6, Len(s)) = <<" ","c","o","u","n","t","y">>
    THEN SubSeq(s, 1, Len(s) - 7) ELSE s

(***************************************************************************)
(* The scraped records handed to the store (BidOpportunity, already        *)
(* scored).  Two sources list the same solicitation under titles that      *)
(* differ in case and punctuation; one listing is scraped again with a     *)
(* changed payload; two listings share a short title; one record has no    *)
(* title.                                                                  *)
(***************************************************************************)
TitleA == <<"R","o","o","f"," ","L","e","a","k"," ","R","e","p","a","i","r"," ","-"," ","C","o","u","n","t","y"," ","G","a","r","a","g","e">>

TitleA2 == <<"R","O","O","F"," ","L","E","A","K"," ","R","E","P","A","I","R",":"," ","C","o","u","n","t","y"," "," ","G","a","r","a","g","e">>

TitleShort == <<"R","o","o","f"," ","R","e","p","a","i","r">>

DueIsoPast == <<"2","0","2","4","-","0","6","-","1","4">>

DueIsoToday == <<"2","0","2","4","-","0","6","-","1","5">>

DueUsPast == <<"0","6","/","1","4","/","2","0","2","4">>

\* the placeholder some feeds send for "no date": shaped like a date, not a date
DueIsoShapedBad == <<"0","0","0","0","-","0","0","-","0","0">>

DueText == <<"T","B","D">>

DueEmpty == <<>>

Bid(src, sid, title, descr, ptype, due, score) ==
    [title |-> title, source |-> src, source_id |-> sid, description |-> descr,
     project_type |-> ptype, due_date |-> due, relevance_score |-> score,
     status |-> "new", notes |-> ""]

Bids ==
    { Bid("sam_gov", "a", TitleA, "d1", "waterproofing", DueIsoPast, 40),
      Bid("sam_gov", "a", TitleShort, "d2", "general", DueIsoToday, 70),
      Bid("eva", "a", TitleA2, "d1", "waterproofing", DueUsPast, 65),
      Bid("fairfax", "a", TitleA2, "d1", "general", DueEmpty, 40),
      Bid("fairfax", "a", TitleShort, "d1", "general", DueIsoShapedBad, 70),
      Bid("eva", "b", None, "d1", "general", DueText, 50) }

\* the titles and due dates that occur, with what the store computes from
\* each of them (computed once)
Titles == { b.title : b \in Bids } \ {None}

DueDates == { b.due_date : b \in Bids }

NormalizedTitle == [t \in Titles |-> _normalize_title(t)]

\* the statuses given to update_status directly
Statuses == {"new", "reviewed"}

\* what a POST /api/status body may carry as status: a workflow status, an
\* empty string, or any other string
RequestStatuses == Statuses \cup {"", "archived"}

NotesValues == {"", "call back"}

(***************************************************************************)
(* BidDatabase.upsert_opportunity                                          *)
(***************************************************************************)
\* a uniqueness key that also takes the title in
SameKey_TitleInKey(r, data) ==
    r.source = data.source /\ r.source_id = data.source_id /\ r.title = data.title

\* UNIQUE(source, source_id)
SameKey(r, data) == r.source = data.source /\ r.source_id = data.source_id

\* an update that takes every column of the submitted record
OnConflictUpdate_AllColumns(r, data) ==
    [r EXCEPT !.title = data.title,
              !.description = data.description,
              !.project_type = data.project_type,
              !.due_date = data.due_date,
              !.relevance_score = data.relevance_score,
              !.status = data.status,
              !.notes = data.notes,
              !.updated_at = now]

\* ON CONFLICT(source, source_id) DO UPDATE SET ... of the stored row r
OnConflictUpdate(r, data) ==
    [r EXCEPT !.title = data.title,
              !.description = data.description,
              !.due_date = data.due_date,
              !.relevance_score = data.relevance_score,
              !.updated_at = now]

\* the row INSERT creates
InsertedRow(data) ==
    [id |-> nextId, title |-> data.title, source |-> data.source,
     source_id |-> data.source_id, description |-> data.description,
     project_type |-> data.project_type, due_date |-> data.due_date,
     relevance_score |-> data.relevance_score, status |-> data.status,
     notes |-> data.notes, updated_at |-> now]

\* the store after the statement, and the value returned.  A NULL title
\* violates NOT NULL: the exception is caught and -1 returned.  The statement
\* takes a value of the AUTOINCREMENT sequence on either path; only a real
\* INSERT sets the connection's last_insert_rowid, which is what
\* cursor.lastrowid reads.
upsert_opportunity(bid) ==
    IF bid.title = None
    THEN [rows |-> rows, nextId |-> nextId, lastrowid |-> lastrowid, ret |-> -1]
    ELSE IF \E r \in rows : SameKey(r, bid)
    THEN LET r == CHOOSE x \in rows : SameKey(x, bid)
         IN  [rows |-> (rows \ {r}) \cup {OnConflictUpdate(r, bid)},
              nextId |-> nextId + 1, lastrowid |-> lastrowid, ret |-> lastrowid]
    ELSE [rows |-> rows \cup {InsertedRow(bid)},
          nextId |-> nextId + 1, lastrowid |-> nextId, ret |-> nextId]

(***************************************************************************)
(* BidDatabase.update_status and the /api/status handler                   *)
(***************************************************************************)
update_status(opp_id, status, notes) ==
    { IF r.id = opp_id
      THEN [r EXCEPT !.status = status, !.notes = notes, !.updated_at = now]
      ELSE r : r \in rows }

(***************************************************************************)
(* BidDatabase.remove_expired                                              *)
(***************************************************************************)
\* due_date LIKE '____-__-__%'
LikeIso(s) == Len(s) >= 10 /\ s[5] = "-" /\ s[8] = "-"

\* step 1, the WHERE clause on due_date
IsoPastDue(due) == due # <<>> /\ LikeIso(due) /\ StrLess(due, strftime(Today))

IsoPastDueOf == [d \in DueDates |-> IsoPastDue(d)]

\* step 1: the rows the DELETE statement removes
IsoExpired == { r \in rows : r.status = "new" /\ IsoPastDueOf[r.due_date] }

\* step 2, the loop over the formats: the first format that parses decides
NonIsoExpired(due_str) ==
    LET d1 == strptime(Prefix(due_str, 10), "%m/%d/%Y")
        d2 == strptime(Prefix(due_str, 10), "%m-%d-%Y")
    IN  IF d1 # NoDate THEN DateLess(d1, Today)
        ELSE IF d2 # NoDate THEN DateLess(d2, Today)
        ELSE FALSE

\* step 2: the SELECT and the loop over its rows
NonIsoPastDue(due) == due # <<>> /\ ~LikeIso(due) /\ NonIsoExpired(due)

NonIsoPastDueOf == [d \in DueDates |-> NonIsoPastDue(d)]

non_iso_ids ==
    { r \in rows \ IsoExpired : r.status = "new" /\ NonIsoPastDueOf[r.due_date] }

remove_expired ==
    [rows |-> (rows \ IsoExpired) \ non_iso_ids,
     ret |-> Cardinality(IsoExpired) + Cardinality(non_iso_ids)]

(***************************************************************************)
(* BidDatabase.deduplicate                                                 *)
(***************************************************************************)
MinDedupLen == 20

\* the results of SELECT ... ORDER BY relevance_score DESC: rows of equal
\* score come in an order the statement does not fix
\* the same rows sorted the other way round
ScoreDescOrders_Ascending ==
    LET n == Cardinality(rows)
    IN  { f \in [1..n -> rows] :
            /\ \A i, j \in 1..n : i # j => f[i] # f[j]
            /\ \A i \in 1..n : \A j \in 1..n :
                 i < j => f[i].relevance_score <= f[j].relevance_score }

ScoreDescOrders ==
    LET n == Cardinality(rows)
    IN  { f \in [1..n -> rows] :
            /\ \A i, j \in 1..n : i # j => f[i] # f[j]
            /\ \A i \in 1..n : \A j \in 1..n :
                 i < j => f[i].relevance_score >= f[j].relevance_score }

\* a loop that does not pass over the short titles
RECURSIVE DedupLoop_NoMinimum(_, _, _)
DedupLoop_NoMinimum(order, seen, to_delete) ==
    IF order = <<>> THEN to_delete
    ELSE LET row == Head(order)
             norm == NormalizedTitle[row.title]
         IN  IF norm \in seen
             THEN DedupLoop_NoMinimum(Tail(order), seen, to_delete \cup {row.id})
             ELSE DedupLoop_NoMinimum(Tail(order), seen \cup {norm}, to_delete)

\* the loop over the sorted rows: the ids collected in to_delete
RECURSIVE DedupLoop(_, _, _)
DedupLoop(order, seen, to_delete) ==
    IF order = <<>> THEN to_delete
    ELSE LET row == Head(order)
             norm == NormalizedTitle[row.title]
         IN  IF Len(norm) < MinDedupLen
             THEN DedupLoop(Tail(order), seen, to_delete)
             ELSE IF norm \in seen
             THEN DedupLoop(Tail(order), seen, to_delete \cup {row.id})
             ELSE DedupLoop(Tail(order), seen \cup {norm}, to_delete)

deduplicate(order) ==
    LET to_delete == DedupLoop(order, {}, {})
    IN  [rows |-> { r \in rows : r.id \notin to_delete },
         ret |-> Cardinality(to_delete)]

(***************************************************************************)
(* RelevanceScorer (scorer.py) with the caps and ranges of config.py.      *)
(* The keyword scan is taken by its counts: the number of stored keyword   *)
(* matches, the number of configured keywords that occur in title and      *)
(* description, and whether a waterproofing keyword is among them.         *)
(***************************************************************************)
keyword_match == 30
location_match == 25
budget_in_range == 20
deadline_buffer == 15
set_aside_match == 10

project_range_min == 50000
project_range_max == 2500000

\* a value field that is None
NoValue == -1

\* the service area of LOCATIONS (some of its cities and counties)
LocationCities == { <<"F","a","l","l","s"," ","C","h","u","r","c","h">>, <<"F","a","i","r","f","a","x">>, <<"A","l","e","x","a","n","d","r","i","a">> }

LocationCounties == { <<"F","a","i","r","f","a","x"," ","C","o","u","n","t","y">>, <<"A","r","l","i","n","g","t","o","n"," ","C","o","u","n","t","y">> }

ZipPrefixes == { <<"2","0","0">>, <<"2","0","1">>, <<"2","0","7">>, <<"2","0","8">>, <<"2","0","9">>, <<"2","2","0">>, <<"2","2","1">>, <<"2","2","2">>, <<"2","2","3">>, <<"2","2","6">> }

\* a keyword scale without the cap on the sum
_score_keywords_Uncapped(b) ==
    LET match_count == IF b.keyword_matches = 0 THEN b.text_hits ELSE b.keyword_matches
        waterproofing_boost == IF b.wp_hit THEN 8 ELSE 0
        base == IF match_count = 1 THEN 3
                ELSE IF match_count = 2 THEN 8
                ELSE match_count * 4
    IN  IF match_count = 0 THEN 0 ELSE base + waterproofing_boost

_score_keywords(b) ==
    LET max_pts == keyword_match
        match_count == IF b.keyword_matches = 0 THEN b.text_hits ELSE b.keyword_matches
        waterproofing_boost == IF b.wp_hit THEN 8 ELSE 0
        base == IF match_count = 1 THEN 3
                ELSE IF match_count = 2 THEN 8
                ELSE IF match_count * 4 < max_pts - 5 THEN match_count * 4 ELSE max_pts - 5
    IN  IF match_count = 0 THEN 0
        ELSE IF base + waterproofing_boost < max_pts THEN base + waterproofing_boost
        ELSE max_pts

_score_location(b) ==
    LET max_pts == location_match
    IN  IF b.location_city # <<>>
           /\ \E city \in LocationCities : Contains(LowerStr(b.location_city), LowerStr(city))
        THEN max_pts
        ELSE IF b.location_county # <<>>
           /\ \E county \in LocationCounties :
                 Contains(LowerStr(b.location_county), DropCountySuffix(LowerStr(county)))
        THEN max_pts
        ELSE IF b.location_zip # <<>>
           /\ \E prefix \in ZipPrefixes : StartsWith(b.location_zip, prefix)
        THEN max_pts - 3
        ELSE IF b.location_state \in {"VA", "Virginia"} THEN 8
        ELSE IF b.location_state \in {"DC", "MD", "Maryland"} THEN 8
        ELSE 0

\* a budget score that gives the full points when no value is known
_score_budget_FreeCredit(b) ==
    LET max_pts == budget_in_range
        our_min == project_range_min
        our_max == project_range_max
        val_min == IF b.estimated_value_min \in {NoValue, 0} THEN 0 ELSE b.estimated_value_min
        val_max == IF b.estimated_value_max \in {NoValue, 0} THEN val_min ELSE b.estimated_value_max
    IN  IF b.estimated_value_min = NoValue /\ b.estimated_value_max = NoValue THEN max_pts
        ELSE IF val_min >= our_min /\ val_max <= our_max THEN max_pts
        ELSE IF val_min <= our_max /\ val_max >= our_min THEN (max_pts * 7) \div 10
        ELSE IF val_max < our_min /\ val_max > 20000 THEN (max_pts * 3) \div 10
        ELSE IF val_min > our_max /\ val_min < 5000000 THEN (max_pts * 4) \div 10
        ELSE 0

\* int(max_pts * 0.7) and the like are taken in tenths
_score_budget(b) ==
    LET max_pts == budget_in_range
        our_min == project_range_min
        our_max == project_range_max
        val_min == IF b.estimated_value_min \in {NoValue, 0} THEN 0 ELSE b.estimated_value_min
        val_max == IF b.estimated_value_max \in {NoValue, 0} THEN val_min ELSE b.estimated_value_max
    IN  IF b.estimated_value_min = NoValue /\ b.estimated_value_max = NoValue THEN 0
        ELSE IF val_min >= our_min /\ val_max <= our_max THEN max_pts
        ELSE IF val_min <= our_max /\ val_max >= our_min THEN (max_pts * 7) \div 10
        ELSE IF val_max < our_min /\ val_max > 20000 THEN (max_pts * 3) \div 10
        ELSE IF val_min > our_max /\ val_min < 5000000 THEN (max_pts * 4) \div 10
        ELSE 0

\* the loop over the formats.  Each format is cut to the length of the text:
\* a text shorter than the three date formats (8 characters) parses, if at
\* all, to a date in 1900, which is past; the fourth format, cut, asks for
\* a "T" after the date, which no text drawn here has.
ParseDue(due_date) ==
    LET p == Prefix(due_date, 10)
        d1 == strptime(p, "%Y-%m-%d")
        d2 == strptime(p, "%m/%d/%Y")
        d3 == strptime(p, "%m-%d-%Y")
    IN  IF Len(due_date) < 8 THEN NoDate
        ELSE IF d1 # NoDate THEN d1
        ELSE IF d2 # NoDate THEN d2
        ELSE d3

\* (due - datetime.now()).days: due is the midnight that begins its day, and
\* clock the seconds of today that have passed
days_left(due, clock) ==
    toordinal(due) - toordinal(Today) - (IF clock > 0 THEN 1 ELSE 0)

_score_deadline(b) ==
    LET max_pts == deadline_buffer
        due == ParseDue(b.due_date)
        left == days_left(due, b.clock)
    IN  IF b.due_date = <<>> THEN 0
        ELSE IF due = NoDate THEN 0
        ELSE IF left < 0 THEN 0
        ELSE IF left < 3 THEN 3
        ELSE IF left < 7 THEN (max_pts * 50) \div 100
        ELSE IF left < 14 THEN (max_pts * 75) \div 100
        ELSE IF left < 30 THEN max_pts
        ELSE (max_pts * 90) \div 100

Favorable == { <<"s","m","a","l","l"," ","b","u","s","i","n","e","s","s">>, <<"8","(","a",")">>, <<"h","u","b","z","o","n","e">>, <<"s","d","v","o","s","b">>, <<"w","o","s","b">>, <<"t","o","t","a","l"," ","s","m","a","l","l">> }

_score_set_aside(b) ==
    LET max_pts == set_aside_match
        sa == LowerStr(b.set_aside)
    IN  IF b.set_aside = <<>> THEN 0
        ELSE IF \E f \in Favorable : Contains(sa, f) THEN max_pts
        ELSE IF Contains(sa, <<"f","u","l","l"," ","a","n","d"," ","o","p","e","n">>) \/ Contains(sa, <<"u","n","r","e","s","t","r","i","c","t","e","d">>) THEN max_pts \div 2
        ELSE 2

(***************************************************************************)
(* KEYWORDS of config.py, each list in its order.                          *)
(***************************************************************************)
KEYWORDS_waterproofing ==
    << <<"w","a","t","e","r","p","r","o","o","f","i","n","g">>,
       <<"b","u","i","l","d","i","n","g"," ","e","n","v","e","l","o","p","e">>,
       <<"c","a","u","l","k","i","n","g">>,
       <<"l","e","a","k"," ","r","e","p","a","i","r">>,
       <<"s","e","a","l","a","n","t"," ","r","e","p","l","a","c","e","m","e","n","t">>,
       <<"m","o","i","s","t","u","r","e"," ","r","e","m","e","d","i","a","t","i","o","n">>,
       <<"e","n","v","e","l","o","p","e"," ","r","e","p","a","i","r">>,
       <<"f","o","u","n","d","a","t","i","o","n"," ","w","a","t","e","r","p","r","o","o","f","i","n","g">>,
       <<"r","o","o","f"," ","l","e","a","k">>,
       <<"m","o","i","s","t","u","r","e"," ","b","a","r","r","i","e","r">>,
       <<"d","a","m","p","p","r","o","o","f","i","n","g">>,
       <<"f","l","a","s","h","i","n","g"," ","r","e","p","a","i","r">>,
       <<"d","r","a","i","n","a","g","e"," ","s","y","s","t","e","m">>,
       <<"w","e","a","t","h","e","r","p","r","o","o","f","i","n","g">>,
       <<"f","o","u","n","d","a","t","i","o","n"," ","r","e","p","a","i","r">>,
       <<"w","a","t","e","r"," ","i","n","t","r","u","s","i","o","n">>,
       <<"w","a","t","e","r"," ","i","n","f","i","l","t","r","a","t","i","o","n">>,
       <<"b","e","l","o","w"," ","g","r","a","d","e"," ","w","a","t","e","r","p","r","o","o","f","i","n","g">>,
       <<"e","x","t","e","r","i","o","r"," ","w","a","l","l"," ","c","o","a","t","i","n","g">>,
       <<"p","l","a","z","a"," ","d","e","c","k"," ","w","a","t","e","r","p","r","o","o","f","i","n","g">>,
       <<"p","a","r","k","i","n","g"," ","d","e","c","k"," ","c","o","a","t","i","n","g">>,
       <<"j","o","i","n","t"," ","s","e","a","l","a","n","t">>,
       <<"e","l","a","s","t","o","m","e","r","i","c"," ","c","o","a","t","i","n","g">>,
       <<"m","e","m","b","r","a","n","e">>,
       <<"c","e","m","e","n","t","i","t","i","o","u","s"," ","c","o","a","t","i","n","g">>,
       <<"c","r","y","s","t","a","l","l","i","n","e"," ","w","a","t","e","r","p","r","o","o","f","i","n","g">>,
       <<"t","r","a","f","f","i","c"," ","c","o","a","t","i","n","g">>,
       <<"p","o","l","y","u","r","e","t","h","a","n","e"," ","c","o","a","t","i","n","g">>,
       <<"s","h","e","e","t"," ","m","e","m","b","r","a","n","e">>,
       <<"l","i","q","u","i","d"," ","m","e","m","b","r","a","n","e">>,
       <<"h","o","t"," ","r","u","b","b","e","r","i","z","e","d"," ","a","s","p","h","a","l","t">>,
       <<"b","e","n","t","o","n","i","t","e">>,
       <<"p","r","o","t","e","c","t","i","v","e"," ","c","o","a","t","i","n","g">>,
       <<"d","e","c","k"," ","c","o","a","t","i","n","g">>,
       <<"e","p","o","x","y"," ","i","n","j","e","c","t","i","o","n">>,
       <<"c","r","a","c","k"," ","i","n","j","e","c","t","i","o","n">>,
       <<"e","x","p","a","n","s","i","o","n"," ","j","o","i","n","t">>,
       <<"c","o","n","t","r","o","l"," ","j","o","i","n","t">>,
       <<"v","a","p","o","r"," ","b","a","r","r","i","e","r">>,
       <<"w","a","t","e","r"," ","m","a","n","a","g","e","m","e","n","t">>,
       <<"n","e","g","a","t","i","v","e","-","s","i","d","e"," ","w","a","t","e","r","p","r","o","o","f","i","n","g">>,
       <<"p","o","s","i","t","i","v","e","-","s","i","d","e"," ","w","a","t","e","r","p","r","o","o","f","i","n","g">>,
       <<"c","u","r","t","a","i","n"," ","w","a","l","l"," ","r","e","p","a","i","r">>,
       <<"w","i","n","d","o","w"," ","l","e","a","k">>,
       <<"b","e","l","o","w","-","s","l","a","b"," ","d","r","a","i","n","a","g","e">>,
       <<"h","y","d","r","o","s","t","a","t","i","c"," ","p","r","e","s","s","u","r","e">>,
       <<"w","e","t"," ","b","a","s","e","m","e","n","t">>,
       <<"m","o","i","s","t","u","r","e"," ","c","o","n","t","r","o","l">>,
       <<"m","o","i","s","t","u","r","e"," ","m","i","t","i","g","a","t","i","o","n">>,
       <<"w","a","t","e","r"," ","s","e","e","p","a","g","e">>,
       <<"w","a","t","e","r","s","t","o","p">>,
       <<"w","a","t","e","r"," ","s","t","o","p">>,
       <<"b","a","s","e","m","e","n","t"," ","w","a","t","e","r","p","r","o","o","f","i","n","g">>,
       <<"f","o","u","n","d","a","t","i","o","n"," ","s","e","a","l","i","n","g">>,
       <<"b","u","i","l","d","i","n","g"," ","e","n","v","e","l","o","p","e"," ","r","e","s","t","o","r","a","t","i","o","n">>,
       <<"e","n","v","e","l","o","p","e"," ","r","e","s","t","o","r","a","t","i","o","n">>,
       <<"e","x","t","e","r","i","o","r"," ","c","a","u","l","k","i","n","g">>,
       <<"r","e","-","c","a","u","l","k","i","n","g">>,
       <<"r","e","c","a","u","l","k","i","n","g">>,
       <<"j","o","i","n","t"," ","s","e","a","l">>,
       <<"j","o","i","n","t"," ","r","e","p","a","i","r">>,
       <<"g","a","r","a","g","e"," ","d","e","c","k"," ","r","e","p","a","i","r">>,
       <<"t","u","n","n","e","l"," ","w","a","t","e","r","p","r","o","o","f","i","n","g">>,
       <<"t","a","n","k"," ","l","i","n","i","n","g">>,
       <<"w","a","t","e","r"," ","r","e","m","e","d","i","a","t","i","o","n">> >>

KEYWORDS_tenant_improvements ==
    << <<"t","e","n","a","n","t"," ","i","m","p","r","o","v","e","m","e","n","t">>,
       <<"i","n","t","e","r","i","o","r"," ","r","e","n","o","v","a","t","i","o","n">>,
       <<"i","n","t","e","r","i","o","r"," ","a","l","t","e","r","a","t","i","o","n","s">>,
       <<"o","f","f","i","c","e"," ","r","e","n","o","v","a","t","i","o","n">>,
       <<"l","e","a","s","e","h","o","l","d"," ","i","m","p","r","o","v","e","m","e","n","t">>,
       <<"c","o","m","m","e","r","c","i","a","l"," ","r","e","n","o","v","a","t","i","o","n">>,
       <<"i","n","t","e","r","i","o","r"," ","c","o","n","s","t","r","u","c","t","i","o","n">>,
       <<"r","e","s","t","r","o","o","m"," ","r","e","n","o","v","a","t","i","o","n">>,
       <<"t","e","n","a","n","t"," ","b","u","i","l","d","o","u","t">>,
       <<"i","n","t","e","r","i","o","r"," ","f","i","t","-","o","u","t">>,
       <<"i","n","t","e","r","i","o","r"," ","a","l","t","e","r","a","t","i","o","n">>,
       <<"i","n","t","e","r","i","o","r"," ","m","o","d","i","f","i","c","a","t","i","o","n","s">>,
       <<"o","f","f","i","c","e"," ","r","e","m","o","d","e","l">>,
       <<"s","u","i","t","e"," ","r","e","n","o","v","a","t","i","o","n">>,
       <<"c","o","m","m","e","r","c","i","a","l"," ","i","n","t","e","r","i","o","r">>,
       <<"t","e","n","a","n","t"," ","b","u","i","l","d","-","o","u","t">>,
       <<"T","I"," ","p","r","o","j","e","c","t">>,
       <<"T","I"," ","b","u","i","l","d","o","u","t">>,
       <<"o","f","f","i","c","e"," ","b","u","i","l","d","o","u","t">>,
       <<"s","p","a","c","e"," ","r","e","n","o","v","a","t","i","o","n">>,
       <<"c","o","m","m","e","r","c","i","a","l"," ","u","p","f","i","t">>,
       <<"s","p","a","c","e"," ","b","u","i","l","d","o","u","t">>,
       <<"w","o","r","k","s","p","a","c","e"," ","r","e","n","o","v","a","t","i","o","n">>,
       <<"w","o","r","k","s","p","a","c","e"," ","b","u","i","l","d","o","u","t">>,
       <<"r","e","t","a","i","l"," ","b","u","i","l","d","o","u","t">>,
       <<"r","e","s","t","a","u","r","a","n","t"," ","b","u","i","l","d","o","u","t">>,
       <<"m","e","d","i","c","a","l"," ","o","f","f","i","c","e"," ","b","u","i","l","d","o","u","t">>,
       <<"d","e","n","t","a","l"," ","o","f","f","i","c","e"," ","b","u","i","l","d","o","u","t">>,
       <<"l","a","w"," ","o","f","f","i","c","e"," ","r","e","n","o","v","a","t","i","o","n">>,
       <<"f","i","t","-","u","p">>,
       <<"u","p","f","i","t">>,
       <<"b","u","i","l","d"," ","o","u","t">>,
       <<"o","f","f","i","c","e"," ","a","l","t","e","r","a","t","i","o","n","s">>,
       <<"d","e","m","i","s","i","n","g"," ","w","a","l","l">>,
       <<"d","r","o","p"," ","c","e","i","l","i","n","g">>,
       <<"s","u","s","p","e","n","d","e","d"," ","c","e","i","l","i","n","g">>,
       <<"p","a","r","t","i","t","i","o","n"," ","w","a","l","l">>,
       <<"c","o","m","m","e","r","c","i","a","l"," ","f","l","o","o","r","i","n","g">>,
       <<"c","o","m","m","e","r","c","i","a","l"," ","p","a","i","n","t","i","n","g">>,
       <<"m","i","l","l","w","o","r","k">>,
       <<"c","a","b","i","n","e","t","r","y">>,
       <<"r","e","c","e","p","t","i","o","n"," ","a","r","e","a">>,
       <<"c","o","n","f","e","r","e","n","c","e"," ","r","o","o","m"," ","r","e","n","o","v","a","t","i","o","n">>,
       <<"b","r","e","a","k"," ","r","o","o","m">>,
       <<"A","D","A"," ","r","e","s","t","r","o","o","m">>,
       <<"i","n","t","e","r","i","o","r"," ","f","i","n","i","s","h">>,
       <<"f","i","n","i","s","h"," ","w","o","r","k">>,
       <<"l","a","b","o","r","a","t","o","r","y"," ","r","e","n","o","v","a","t","i","o","n">>,
       <<"l","a","b","o","r","a","t","o","r","y"," ","b","u","i","l","d","o","u","t">>,
       <<"c","l","i","n","i","c"," ","r","e","n","o","v","a","t","i","o","n">>,
       <<"c","l","i","n","i","c"," ","b","u","i","l","d","o","u","t">>,
       <<"c","l","a","s","s","r","o","o","m"," ","r","e","n","o","v","a","t","i","o","n">>,
       <<"l","o","c","k","e","r"," ","r","o","o","m"," ","r","e","n","o","v","a","t","i","o","n">>,
       <<"k","i","t","c","h","e","n"," ","r","e","n","o","v","a","t","i","o","n">>,
       <<"c","a","f","e","t","e","r","i","a"," ","r","e","n","o","v","a","t","i","o","n">>,
       <<"c","o","m","m","e","r","c","i","a","l"," ","p","l","u","m","b","i","n","g">>,
       <<"c","o","m","m","e","r","c","i","a","l"," ","e","l","e","c","t","r","i","c","a","l">>,
       <<"d","a","t","a"," ","c","a","b","l","i","n","g">>,
       <<"a","c","c","e","s","s"," ","f","l","o","o","r","i","n","g">>,
       <<"s","t","o","r","e","f","r","o","n","t">>,
       <<"s","i","g","n","a","g","e">> >>

KEYWORDS_general_contracting ==
    << <<"b","u","i","l","d","i","n","g"," ","r","e","n","o","v","a","t","i","o","n">>,
       <<"f","a","c","i","l","i","t","y"," ","r","e","n","o","v","a","t","i","o","n">>,
       <<"c","o","n","s","t","r","u","c","t","i","o","n"," ","s","e","r","v","i","c","e","s">>,
       <<"b","u","i","l","d","i","n","g"," ","r","e","p","a","i","r">>,
       <<"c","o","n","c","r","e","t","e"," ","r","e","p","a","i","r">>,
       <<"r","o","o","f"," ","r","e","p","a","i","r">>,
       <<"g","e","n","e","r","a","l"," ","c","o","n","s","t","r","u","c","t","i","o","n">>,
       <<"b","u","i","l","d","i","n","g"," ","m","a","i","n","t","e","n","a","n","c","e">>,
       <<"f","a","c","i","l","i","t","y"," ","i","m","p","r","o","v","e","m","e","n","t">>,
       <<"c","o","m","m","e","r","c","i","a","l"," ","c","o","n","s","t","r","u","c","t","i","o","n">>,
       <<"f","a","c","i","l","i","t","y"," ","r","e","p","a","i","r">>,
       <<"b","u","i","l","d","i","n","g"," ","s","e","r","v","i","c","e","s">>,
       <<"r","e","p","a","i","r"," ","s","e","r","v","i","c","e","s">>,
       <<"g","e","n","e","r","a","l"," ","c","o","n","t","r","a","c","t","o","r">>,
       <<"b","u","i","l","d","i","n","g"," ","a","l","t","e","r","a","t","i","o","n">>,
       <<"A","D","A"," ","c","o","m","p","l","i","a","n","c","e">>,
       <<"H","V","A","C"," ","r","e","p","l","a","c","e","m","e","n","t">>,
       <<"f","a","ç","a","d","e"," ","r","e","p","a","i","r">>,
       <<"f","a","c","a","d","e"," ","r","e","p","a","i","r">>,
       <<"d","o","o","r"," ","r","e","p","l","a","c","e","m","e","n","t">>,
       <<"f","l","o","o","r","i","n","g"," ","r","e","p","l","a","c","e","m","e","n","t">>,
       <<"p","a","i","n","t","i","n","g"," ","c","o","n","t","r","a","c","t","o","r">>,
       <<"d","e","m","o","l","i","t","i","o","n">>,
       <<"s","i","t","e"," ","w","o","r","k">>,
       <<"c","o","m","m","e","r","c","i","a","l"," ","r","e","m","o","d","e","l">>,
       <<"s","t","r","u","c","t","u","r","a","l"," ","r","e","p","a","i","r">>,
       <<"m","a","s","o","n","r","y"," ","r","e","p","a","i","r">>,
       <<"b","r","i","c","k"," ","r","e","p","a","i","r">>,
       <<"s","t","u","c","c","o"," ","r","e","p","a","i","r">>,
       <<"e","x","t","e","r","i","o","r"," ","r","e","n","o","v","a","t","i","o","n">>,
       <<"w","i","n","d","o","w"," ","r","e","p","l","a","c","e","m","e","n","t">>,
       <<"c","u","r","t","a","i","n"," ","w","a","l","l">>,
       <<"s","t","o","r","e","f","r","o","n","t"," ","r","e","p","l","a","c","e","m","e","n","t">>,
       <<"c","a","n","o","p","y">>,
       <<"a","w","n","i","n","g">>,
       <<"l","o","a","d","i","n","g"," ","d","o","c","k">>,
       <<"p","a","r","k","i","n","g"," ","g","a","r","a","g","e"," ","r","e","p","a","i","r">>,
       <<"e","l","e","v","a","t","o","r"," ","m","o","d","e","r","n","i","z","a","t","i","o","n">>,
       <<"i","n","t","e","r","i","o","r"," ","d","e","m","o","l","i","t","i","o","n">>,
       <<"s","e","l","e","c","t","i","v","e"," ","d","e","m","o","l","i","t","i","o","n">>,
       <<"a","b","a","t","e","m","e","n","t">>,
       <<"h","a","z","m","a","t">>,
       <<"a","s","b","e","s","t","o","s">>,
       <<"l","e","a","d"," ","p","a","i","n","t">>,
       <<"f","i","r","e"," ","d","a","m","a","g","e">>,
       <<"w","a","t","e","r"," ","d","a","m","a","g","e">>,
       <<"s","t","o","r","m"," ","d","a","m","a","g","e">>,
       <<"e","m","e","r","g","e","n","c","y"," ","r","e","p","a","i","r">>,
       <<"p","r","e","v","e","n","t","i","v","e"," ","m","a","i","n","t","e","n","a","n","c","e">>,
       <<"c","a","p","i","t","a","l"," ","i","m","p","r","o","v","e","m","e","n","t">>,
       <<"d","e","f","e","r","r","e","d"," ","m","a","i","n","t","e","n","a","n","c","e">>,
       <<"c","o","m","m","e","r","c","i","a","l"," ","r","o","o","f","i","n","g">>,
       <<"T","P","O">>,
       <<"E","P","D","M">>,
       <<"s","t","a","n","d","i","n","g"," ","s","e","a","m">>,
       <<"r","o","o","f"," ","r","e","p","l","a","c","e","m","e","n","t">>,
       <<"t","u","r","n","k","e","y">>,
       <<"d","e","s","i","g","n","-","b","u","i","l","d">>,
       <<"C","M"," ","a","t"," ","r","i","s","k">>,
       <<"c","o","n","s","t","r","u","c","t","i","o","n"," ","m","a","n","a","g","e","m","e","n","t">>,
       <<"m","e","t","a","l"," ","b","u","i","l","d","i","n","g">>,
       <<"p","r","e","-","e","n","g","i","n","e","e","r","e","d"," ","b","u","i","l","d","i","n","g">>,
       <<"s","i","t","e","w","o","r","k">>,
       <<"g","r","a","d","i","n","g">>,
       <<"p","a","v","i","n","g">>,
       <<"g","e","n","e","r","a","l"," ","c","o","n","s","t","r","u","c","t","i","o","n"," ","s","e","r","v","i","c","e","s">>,
       <<"f","a","c","i","l","i","t","y"," ","u","p","g","r","a","d","e">>,
       <<"f","a","c","i","l","i","t","y"," ","m","o","d","i","f","i","c","a","t","i","o","n">>,
       <<"b","u","i","l","d","i","n","g"," ","m","o","d","i","f","i","c","a","t","i","o","n">>,
       <<"r","e","p","a","i","r"," ","a","n","d"," ","r","e","n","o","v","a","t","i","o","n">>,
       <<"m","i","s","c","e","l","l","a","n","e","o","u","s"," ","c","o","n","s","t","r","u","c","t","i","o","n">>,
       <<"m","i","n","o","r"," ","r","e","p","a","i","r">>,
       <<"m","a","j","o","r"," ","r","e","p","a","i","r">>,
       <<"l","i","f","e"," ","s","a","f","e","t","y">>,
       <<"f","i","r","e"," ","a","l","a","r","m">>,
       <<"f","i","r","e"," ","s","u","p","p","r","e","s","s","i","o","n">>,
       <<"s","p","r","i","n","k","l","e","r">>,
       <<"a","c","c","e","s","s","i","b","i","l","i","t","y">>,
       <<"A","D","A"," ","u","p","g","r","a","d","e">>,
       <<"A","D","A"," ","m","o","d","i","f","i","c","a","t","i","o","n">>,
       <<"c","o","n","c","r","e","t","e"," ","r","e","s","t","o","r","a","t","i","o","n">>,
       <<"s","p","a","l","l"," ","r","e","p","a","i","r">>,
       <<"e","x","p","a","n","s","i","o","n"," ","j","o","i","n","t"," ","r","e","p","a","i","r">>,
       <<"c","a","u","l","k">>,
       <<"s","e","a","l","a","n","t">>,
       <<"p","o","w","e","r"," ","w","a","s","h","i","n","g">>,
       <<"p","r","e","s","s","u","r","e"," ","w","a","s","h","i","n","g">>,
       <<"e","x","t","e","r","i","o","r"," ","c","l","e","a","n","i","n","g">>,
       <<"f","r","a","m","i","n","g">>,
       <<"i","n","s","u","l","a","t","i","o","n">>,
       <<"m","e","t","a","l"," ","s","t","u","d">> >>

KEYWORDS_government ==
    << <<"I","D","I","Q">>,
       <<"t","a","s","k"," ","o","r","d","e","r">>,
       <<"c","o","n","s","t","r","u","c","t","i","o","n"," ","s","e","r","v","i","c","e","s">>,
       <<"f","a","c","i","l","i","t","y"," ","m","a","i","n","t","e","n","a","n","c","e">>,
       <<"j","o","b"," ","o","r","d","e","r"," ","c","o","n","t","r","a","c","t">>,
       <<"d","e","s","i","g","n"," ","b","u","i","l","d">>,
       <<"o","p","e","r","a","t","i","o","n","s"," ","a","n","d"," ","m","a","i","n","t","e","n","a","n","c","e">>,
       <<"r","e","p","a","i","r"," ","a","n","d"," ","a","l","t","e","r","a","t","i","o","n">>,
       <<"s","o","l","i","c","i","t","a","t","i","o","n">>,
       <<"R","F","P">>,
       <<"I","F","B">>,
       <<"f","e","d","e","r","a","l"," ","b","u","i","l","d","i","n","g">>,
       <<"g","o","v","e","r","n","m","e","n","t"," ","f","a","c","i","l","i","t","y">>,
       <<"m","i","l","i","t","a","r","y"," ","c","o","n","s","t","r","u","c","t","i","o","n">>,
       <<"s","m","a","l","l"," ","b","u","s","i","n","e","s","s"," ","s","e","t","-","a","s","i","d","e">>,
       <<"J","O","C">>,
       <<"8","a"," ","s","e","t","-","a","s","i","d","e">>,
       <<"S","D","V","O","S","B">>,
       <<"H","U","B","Z","o","n","e">>,
       <<"m","a","i","n","t","e","n","a","n","c","e"," ","r","e","p","a","i","r">>,
       <<"B","P","A">>,
       <<"b","l","a","n","k","e","t"," ","p","u","r","c","h","a","s","e"," ","a","g","r","e","e","m","e","n","t">>,
       <<"G","S","A"," ","s","c","h","e","d","u","l","e">>,
       <<"i","n","d","e","f","i","n","i","t","e"," ","d","e","l","i","v","e","r","y">>,
       <<"i","n","d","e","f","i","n","i","t","e"," ","q","u","a","n","t","i","t","y">>,
       <<"r","e","q","u","i","r","e","m","e","n","t","s"," ","c","o","n","t","r","a","c","t">>,
       <<"W","O","S","B">>,
       <<"E","D","W","O","S","B">>,
       <<"s","e","r","v","i","c","e","-","d","i","s","a","b","l","e","d"," ","v","e","t","e","r","a","n">>,
       <<"R","F","Q">>,
       <<"i","n","v","i","t","a","t","i","o","n"," ","f","o","r"," ","b","i","d">>,
       <<"r","e","q","u","e","s","t"," ","f","o","r"," ","p","r","o","p","o","s","a","l">>,
       <<"r","e","q","u","e","s","t"," ","f","o","r"," ","q","u","o","t","a","t","i","o","n">>,
       <<"s","o","u","r","c","e","s"," ","s","o","u","g","h","t">>,
       <<"p","r","e","s","o","l","i","c","i","t","a","t","i","o","n">>,
       <<"p","r","e","-","s","o","l","i","c","i","t","a","t","i","o","n">>,
       <<"b","a","s","e"," ","o","p","e","r","a","t","i","o","n","s">>,
       <<"O","&","M">>,
       <<"m","i","n","o","r"," ","c","o","n","s","t","r","u","c","t","i","o","n">>,
       <<"s","u","s","t","a","i","n","m","e","n","t"," ","r","e","s","t","o","r","a","t","i","o","n"," ","m","o","d","e","r","n","i","z","a","t","i","o","n">>,
       <<"S","R","M">>,
       <<"M","I","L","C","O","N">>,
       <<"M","A","T","O","C">>,
       <<"S","A","T","O","C">>,
       <<"M","A","C","C">>,
       <<"m","i","l","i","t","a","r","y"," ","b","a","s","e">>,
       <<"V","A"," ","h","o","s","p","i","t","a","l">>,
       <<"f","e","d","e","r","a","l"," ","c","o","u","r","t","h","o","u","s","e">>,
       <<"p","o","s","t"," ","o","f","f","i","c","e">>,
       <<"g","o","v","e","r","n","m","e","n","t"," ","h","o","u","s","i","n","g">>,
       <<"G","S","A"," ","b","u","i","l","d","i","n","g">>,
       <<"g","u","a","r","d"," ","s","t","a","t","i","o","n">>,
       <<"b","a","r","r","a","c","k","s">>,
       <<"N","A","V","F","A","C">>,
       <<"U","S","A","C","E">>,
       <<"A","r","m","y"," ","C","o","r","p","s">>,
       <<"G","S","A">> >>

KEYWORDS ==
    [waterproofing |-> KEYWORDS_waterproofing,
     tenant_improvements |-> KEYWORDS_tenant_improvements,
     general_contracting |-> KEYWORDS_general_contracting,
     government |-> KEYWORDS_government]

\* f"{bid.title} {bid.description}".lower()
combined(title, description) == LowerStr(title \o <<" ">> \o description)

\* the entries of one list found in the text
HitsIn(kw_list, text) ==
    Cardinality({ i \in 1..Len(kw_list) : Contains(text, LowerStr(kw_list[i])) })

\* the rescan of the text when no match is stored: every entry of every list
\* that is found counts
RescanCount(text) ==
    HitsIn(KEYWORDS.waterproofing, text) + HitsIn(KEYWORDS.tenant_improvements, text)
        + HitsIn(KEYWORDS.general_contracting, text) + HitsIn(KEYWORDS.government, text)

\* some waterproofing keyword is in the text
WaterproofingHit(text) == HitsIn(KEYWORDS.waterproofing, text) > 0

\* the record of the worked example: no stored matches, no description
ExampleTitle == <<"W","a","t","e","r","p","r","o","o","f","i","n","g"," ","a","n","d"," ","B","u","i","l","d","i","n","g"," ","E","n","v","e","l","o","p","e"," ","R","e","p","a","i","r"," ","-"," ","C","o","u","n","t","y"," ","G","a","r","a","g","e">>

ExampleText == combined(ExampleTitle, <<>>)

ExampleLocation ==
    [location_city |-> <<>>, location_county |-> <<"F","a","i","r","f","a","x"," ","C","o","u","n","t","y">>,
     location_zip |-> <<>>, location_state |-> "VA"]

ExampleRecord ==
    [keyword_matches |-> 0, text_hits |-> RescanCount(ExampleText), wp_hit |-> WaterproofingHit(ExampleText),
     location_city |-> ExampleLocation.location_city, location_county |-> ExampleLocation.location_county,
     location_zip |-> ExampleLocation.location_zip, location_state |-> ExampleLocation.location_state,
     estimated_value_min |-> NoValue, estimated_value_max |-> NoValue,
     due_date |-> <<"2","0","2","4","-","0","6","-","2","5">>, clock |-> 36000,
     set_aside |-> <<"S","m","a","l","l"," ","B","u","s","i","n","e","s","s">>]

(***************************************************************************)
(* The records scored.                                                     *)
(***************************************************************************)
KeywordCases ==
    { [keyword_matches |-> n, text_hits |-> h, wp_hit |-> w] :
        n \in 0..MaxMatches, h \in {0, RescanCount(ExampleText)}, w \in BOOLEAN } \ 
    { [keyword_matches |-> n, text_hits |-> 0, wp_hit |-> TRUE] : n \in 0..MaxMatches }

LocationCases ==
    { [location_city |-> <<"F","a","l","l","s"," ","C","h","u","r","c","h">>, location_county |-> <<>>, location_zip |-> <<>>, location_state |-> "VA"],
      [location_city |-> <<"R","i","c","h","m","o","n","d">>, location_county |-> <<"F","a","i","r","f","a","x"," ","C","o","u","n","t","y">>, location_zip |-> <<>>, location_state |-> "VA"],
      [location_city |-> <<>>, location_county |-> <<>>, location_zip |-> <<"2","2","0","4","6">>, location_state |-> "VA"],
      [location_city |-> <<"R","i","c","h","m","o","n","d">>, location_county |-> <<"H","e","n","r","i","c","o"," ","C","o","u","n","t","y">>, location_zip |-> <<"2","3","2","1","9">>, location_state |-> "VA"],
      [location_city |-> <<>>, location_county |-> <<>>, location_zip |-> <<>>, location_state |-> "TX"],
      ExampleLocation }

ValueCases ==
    { <<NoValue, NoValue>>, <<100000, 500000>>, <<50000, 2500000>>, <<100000, NoValue>>,
      <<NoValue, 100000>>, <<10000, 100000>>, <<1000000, 3000000>>, <<10000, 3000000>>,
      <<30000, 40000>>, <<10000, 20000>>, <<3000000, 4000000>>, <<5000000, 6000000>>,
      <<0, 0>>, <<2500001, 2500001>> }

DueCases ==
    { [due_date |-> <<>>, clock |-> 36000],
      [due_date |-> <<"T","B","D">>, clock |-> 36000],
      [due_date |-> <<"2","0","2","4","-","0","6","-","1","4">>, clock |-> 36000],
      [due_date |-> <<"2","0","2","4","-","0","6","-","1","5">>, clock |-> 36000],
      [due_date |-> <<"2","0","2","4","-","0","6","-","1","5">>, clock |-> 0],
      [due_date |-> <<"0","6","/","1","7","/","2","0","2","4">>, clock |-> 36000],
      [due_date |-> <<"2","0","2","4","-","0","6","-","2","0">>, clock |-> 36000],
      [due_date |-> <<"2","0","2","4","-","0","6","-","2","5">>, clock |-> 36000],
      [due_date |-> <<"2","0","2","4","-","0","7","-","0","5">>, clock |-> 36000],
      [due_date |-> <<"2","0","2","4","-","0","7","-","2","5">>, clock |-> 36000] }

SetAsideCases == { <<>>, <<"S","m","a","l","l"," ","B","u","s","i","n","e","s","s">>, <<"F","u","l","l"," ","a","n","d"," ","O","p","e","n">>, <<"N","a","t","i","v","e"," ","A","m","e","r","i","c","a","n">> }

ScoreInputs ==
    { [keyword_matches |-> k.keyword_matches, text_hits |-> k.text_hits, wp_hit |-> k.wp_hit,
       location_city |-> l.location_city, location_county |-> l.location_county,
       location_zip |-> l.location_zip, location_state |-> l.location_state,
       estimated_value_min |-> v[1], estimated_value_max |-> v[2],
       due_date |-> d.due_date, clock |-> d.clock, set_aside |-> sa] :
        k \in KeywordCases, l \in LocationCases, v \in ValueCases,
        d \in DueCases, sa \in SetAsideCases }

\* the sub-scores that read text, tabulated by the fields they read
LocationOf(b) ==
    [location_city |-> b.location_city, location_county |-> b.location_county,
     location_zip |-> b.location_zip, location_state |-> b.location_state]

DueOf(b) == [due_date |-> b.due_date, clock |-> b.clock]

ScoreLocationOf == [l \in LocationCases |-> _score_location(l)]

ScoreDeadlineOf == [d \in DueCases |-> _score_deadline(d)]

ScoreSetAsideOf == [sa \in SetAsideCases |-> _score_set_aside([set_aside |-> sa])]

\* RelevanceScorer.score, with the sub-scores it adds up
score(b) ==
    LET keywords == _score_keywords(b)
        location == ScoreLocationOf[LocationOf(b)]
        budget == _score_budget(b)
        deadline == ScoreDeadlineOf[DueOf(b)]
        set_aside == ScoreSetAsideOf[b.set_aside]
        total == keywords + location + budget + deadline + set_aside
    IN  [keywords |-> keywords,
         location |-> location,
         budget |-> budget,
         deadline |-> deadline,
         set_aside |-> set_aside,
         total |-> IF total < 100 THEN total ELSE 100]

NotScored == [total |-> -1]

(***************************************************************************)
(* run_scrapers (main.py) from the scored results on, and the background   *)
(* run of app.py.  The relevance score of a scraped record is taken as     *)
(* given here.                                                             *)
(***************************************************************************)
MIN_STORE_SCORE == 5

BidA == Bid("sam_gov", "a", TitleA, "d1", "waterproofing", DueIsoPast, 40)

BidB == Bid("eva", "", TitleA2, "d1", "waterproofing", DueUsPast, 65)

BidLow == Bid("fairfax", "a", TitleShort, "d1", "general", DueEmpty, 3)

BidBad == Bid("eva", "b", None, "d1", "general", DueText, 50)

\* what score_opportunities returns: the results, highest score first
ScoredBatches ==
    { <<BidA>>, <<BidB, BidA>>, <<BidB, BidLow>>, <<BidB, BidBad, BidA, BidLow>> }

\* a floor that lets everything through
RECURSIVE quality_results_NoFloor(_)
quality_results_NoFloor(scored) ==
    IF scored = <<>> THEN <<>>
    ELSE <<Head(scored)>> \o quality_results_NoFloor(Tail(scored))

RECURSIVE quality_results(_)
quality_results(scored) ==
    IF scored = <<>> THEN <<>>
    ELSE IF Head(scored).relevance_score >= MIN_STORE_SCORE
    THEN <<Head(scored)>> \o quality_results(Tail(scored))
    ELSE quality_results(Tail(scored))

\* hashlib.md5(raw).hexdigest()[:16] is taken as a 16-bit fold of the
\* characters, written in hex: what is kept of it is that the digest is a
\* function of the joined text and of nothing else
HexDigit == <<"0","1","2","3","4","5","6","7","8","9","a","b","c","d","e","f">>

RECURSIVE Fold16(_, _)
Fold16(raw, h) ==
    IF raw = <<>> THEN h ELSE Fold16(Tail(raw), (h * 31 + Ord(Head(raw))) % 65536)

RECURSIVE JoinParts(_)
JoinParts(parts) ==
    IF Len(parts) = 1 THEN Head(parts) ELSE Head(parts) \o <<"|">> \o JoinParts(Tail(parts))

\* a digest that changes from run to run
_generate_source_id_Salted(parts) ==
    LET h == (Fold16(JoinParts(parts), 0) + run.n) % 65536
    IN  HexDigit[(h \div 4096) + 1] \o HexDigit[((h \div 256) % 16) + 1]
          \o HexDigit[((h \div 16) % 16) + 1] \o HexDigit[(h % 16) + 1]

_generate_source_id(parts) ==
    LET h == Fold16(JoinParts(parts), 0)
    IN  HexDigit[(h \div 4096) + 1] \o HexDigit[((h \div 256) % 16) + 1]
          \o HexDigit[((h \div 16) % 16) + 1] \o HexDigit[(h % 16) + 1]

\* the source key as the adapters spell it in the digest
SourceTag == [sam_gov |-> <<"s","a","m">>, eva |-> <<"e","v","a">>, fairfax |-> <<"f","a","i","r","f","a","x">>]

\* source_id = notice_id or self._generate_source_id(key, title)
WithSourceId(b) ==
    IF b.source_id = "" /\ b.title # None
    THEN [b EXCEPT !.source_id = _generate_source_id(<<SourceTag[b.source], b.title>>)]
    ELSE b

RECURSIVE Listings(_)
Listings(results) ==
    IF results = <<>> THEN <<>> ELSE <<WithSourceId(Head(results))>> \o Listings(Tail(results))

\* if row_id > 0: new_count += 1, and a variant that counts every id but 0
CountsAsNew_NonZero(row_id) == row_id # 0

CountsAsNew(row_id) == row_id > 0

Keys(rs) == { <<r.source, r.source_id>> : r \in rs }

NoRun ==
    [pc |-> "idle", n |-> 0, scored |-> <<>>, queue |-> <<>>, upserted |-> <<>>, before |-> {},
     stored |-> 0, new_count |-> 0, dedup_count |-> 0, total_found |-> 0, new_opportunities |-> 0]

NoScan ==
    [i |-> 0, attempt |-> 1, enabled |-> <<>>, elapsed |-> 0, all_results |-> <<>>,
     sources_searched |-> <<>>, by_source |-> <<>>, errors |-> <<>>, calls |-> <<>>, waits |-> <<>>,
     swallowed |-> {}]

Requests == 1..MaxRequests

(***************************************************************************)
(* The store as a state machine: every public operation, in any order.     *)
(***************************************************************************)
Init ==
    /\ rows = {}
    /\ nextId = 1
    /\ lastrowid = 0
    /\ now = 0
    /\ updates = 0
    /\ op = [name |-> "init"]
    /\ scoreIn = NotScored
    /\ scoreOut = NotScored
    /\ run = NoRun
    /\ search_runs = <<>>
    /\ changed = {}
    /\ previous = [scored |-> <<>>, keys |-> {}, count |-> 0]
    /\ scan = NoScan
    /\ _scraper_state = [running |-> FALSE, summary |-> "None", error |-> "None"]
    /\ request = [r \in Requests |-> "none"]
    /\ thread = [r \in Requests |-> "none"]

UpsertOpportunity ==
    \E bid \in Bids :
        LET res == upsert_opportunity(bid)
        IN  /\ nextId <= MaxId
            /\ rows' = res.rows
            /\ nextId' = res.nextId
            /\ lastrowid' = res.lastrowid
            /\ now' = IF res.ret = -1 THEN now ELSE now + 1
            /\ op' = [name |-> "upsert_opportunity", ret |-> res.ret]
            /\ UNCHANGED <<updates, scoreVars, pipeVars, apiVars>>

UpdateStatus ==
    \E opp_id \in 1..MaxId, status \in Statuses, notes \in NotesValues :
        /\ updates < MaxUpdates
        /\ rows' = update_status(opp_id, status, notes)
        /\ updates' = updates + 1
        /\ now' = now + 1
        /\ op' = [name |-> "update_status", id |-> opp_id, ret |-> "None"]
        /\ UNCHANGED <<nextId, lastrowid, scoreVars, pipeVars, apiVars>>

\* POST /api/status: 400 when id or status is missing, else update_status
\* without notes and {"ok": true}
ApiUpdateStatus ==
    \E opp_id \in 0..MaxId, new_status \in RequestStatuses :
        IF opp_id = 0 \/ new_status = ""
        THEN /\ op' = [name |-> "api_update_status", id |-> opp_id, ret |-> "400"]
             /\ UNCHANGED <<rows, nextId, lastrowid, now, updates, scoreVars, pipeVars, apiVars>>
        ELSE /\ updates < MaxUpdates
             /\ rows' = update_status(opp_id, new_status, "")
             /\ updates' = updates + 1
             /\ now' = now + 1
             /\ op' = [name |-> "api_update_status", id |-> opp_id, ret |-> "ok"]
             /\ UNCHANGED <<nextId, lastrowid, scoreVars, pipeVars, apiVars>>

RemoveExpired ==
    /\ rows' = remove_expired.rows
    /\ op' = [name |-> "remove_expired", ret |-> remove_expired.ret]
    /\ UNCHANGED <<nextId, lastrowid, now, updates, scoreVars, pipeVars, apiVars>>

Deduplicate ==
    \E order \in ScoreDescOrders :
        /\ rows' = deduplicate(order).rows
        /\ op' = [name |-> "deduplicate", ret |-> deduplicate(order).ret]
        /\ UNCHANGED <<nextId, lastrowid, now, updates, scoreVars, pipeVars, apiVars>>

\* BidDatabase(db_path): a new connection, whose last_insert_rowid is 0
Connect ==
    /\ lastrowid' = 0
    /\ op' = [name |-> "connect"]
    /\ UNCHANGED <<rows, nextId, now, updates, scoreVars, pipeVars, apiVars>>

Next ==
    \/ UpsertOpportunity
    \/ UpdateStatus
    \/ ApiUpdateStatus
    \/ RemoveExpired
    \/ Deduplicate
    \/ Connect

Spec == Init /\ [][Next]_vars

(***************************************************************************)
(* BidDatabase.search on the columns the rows carry.  An argument that is  *)
(* falsy ("" or 0) adds no condition.                                      *)
(***************************************************************************)
\* the text of the description column
DescriptionText == ("d1" :> <<"d","1">>) @@ ("d2" :> <<"d","2">>)

\* col LIKE '%keyword%' for a keyword without % and _: ASCII letters match
\* in either case
Like(col, keyword) == Contains(LowerStr(col), LowerStr(keyword))

\* the WHERE clause
Matches(r, f) ==
    /\ f.project_type # "" => r.project_type = f.project_type
    /\ f.min_score > 0 => r.relevance_score >= f.min_score
    /\ f.status # "" => r.status = f.status
    /\ f.keyword # <<>> => Like(r.title, f.keyword) \/ Like(DescriptionText[r.description], f.keyword)
    /\ f.source # "" => r.source = f.source

\* ORDER BY relevance_score DESC, due_date ASC on TEXT values; rows equal in
\* both come in an order the statement does not fix
SearchOrders(found) ==
    LET n == Cardinality(found)
    IN  { o \in [1..n -> found] :
            /\ \A i, j \in 1..n : i # j => o[i] # o[j]
            /\ \A i \in 1..n : \A j \in 1..n :
                 i < j => \/ o[i].relevance_score > o[j].relevance_score
                          \/ /\ o[i].relevance_score = o[j].relevance_score
                             /\ ~StrLess(o[j].due_date, o[i].due_date) }

\* LIMIT ? OFFSET ?
LimitOffset(o, limit, offset) ==
    SubSeq(o, offset + 1, IF offset + limit < Len(o) THEN offset + limit ELSE Len(o))

\* the results search may return
search(f) ==
    { LimitOffset(o, f.limit, f.offset) : o \in SearchOrders({ r \in rows : Matches(r, f) }) }

NoFilter ==
    [project_type |-> "", min_score |-> 0, status |-> "", keyword |-> <<>>, source |-> "",
     limit |-> 50, offset |-> 0]

\* the calls made: no filter, each filter alone, filters together, pages
SearchArgs ==
    { NoFilter,
      [NoFilter EXCEPT !.project_type = "waterproofing"],
      [NoFilter EXCEPT !.min_score = 50],
      [NoFilter EXCEPT !.status = "reviewed"],
      [NoFilter EXCEPT !.keyword = <<"L","E","A","K">>],
      [NoFilter EXCEPT !.keyword = <<"d","2">>],
      [NoFilter EXCEPT !.source = "eva"],
      [NoFilter EXCEPT !.project_type = "waterproofing", !.status = "new",
                       !.keyword = <<"L","E","A","K">>, !.min_score = 40],
      [NoFilter EXCEPT !.limit = 1],
      [NoFilter EXCEPT !.limit = 1, !.offset = 1] }

Search ==
    \E f \in SearchArgs : \E ret \in search(f) :
        /\ op' = [name |-> "search", args |-> f, ret |-> ret]
        /\ UNCHANGED <<rows, nextId, lastrowid, now, updates, scoreVars, pipeVars, apiVars>>

InitSearch == Init

NextSearch ==
    \/ UpsertOpportunity
    \/ ApiUpdateStatus
    \/ Search

SpecSearch == InitSearch /\ [][NextSearch]_vars

(***************************************************************************)
(* Status updates on a store in use: two listings were inserted (at times  *)
(* 0 and 1) and each is either as inserted or was given a status and notes *)
(* by an earlier update_status call (at times 2 and 3).                    *)
(***************************************************************************)
StoredRow(id, bid, touched, status, notes) ==
    [id |-> id, title |-> bid.title, source |-> bid.source, source_id |-> bid.source_id,
     description |-> bid.description, project_type |-> bid.project_type, due_date |-> bid.due_date,
     relevance_score |-> bid.relevance_score,
     status |-> IF touched THEN status ELSE bid.status,
     notes |-> IF touched THEN notes ELSE bid.notes,
     updated_at |-> IF touched THEN id + 1 ELSE id - 1]

StoredRowStates(id, bid) ==
    {StoredRow(id, bid, FALSE, "new", "")}
        \cup { StoredRow(id, bid, TRUE, st, n) : st \in Statuses, n \in NotesValues }

InitStatus ==
    /\ \E r1 \in StoredRowStates(1, Bid("sam_gov", "a", TitleA, "d1", "waterproofing", DueIsoPast, 40)),
          r2 \in StoredRowStates(2, Bid("eva", "a", TitleA2, "d1", "waterproofing", DueUsPast, 65)) :
            rows = {r1, r2}
    /\ nextId = 3
    /\ lastrowid = 2
    /\ now = 4
    /\ updates = 0
    /\ op = [name |-> "init"]
    /\ scoreIn = NotScored
    /\ scoreOut = NotScored
    /\ run = NoRun
    /\ search_runs = <<>>
    /\ changed = {}
    /\ previous = [scored |-> <<>>, keys |-> {}, count |-> 0]
    /\ scan = NoScan
    /\ _scraper_state = [running |-> FALSE, summary |-> "None", error |-> "None"]
    /\ request = [r \in Requests |-> "none"]
    /\ thread = [r \in Requests |-> "none"]

NextStatus ==
    \/ UpdateStatus
    \/ ApiUpdateStatus

SpecStatus == InitStatus /\ [][NextStatus]_vars

(***************************************************************************)
(* The scorer as a state machine: a record is drawn and scored.            *)
(***************************************************************************)
InitScore ==
    /\ rows = {}
    /\ nextId = 1
    /\ lastrowid = 0
    /\ now = 0
    /\ updates = 0
    /\ op = [name |-> "init"]
    /\ scoreIn \in ScoreInputs
    /\ scoreOut = NotScored
    /\ run = NoRun
    /\ search_runs = <<>>
    /\ changed = {}
    /\ previous = [scored |-> <<>>, keys |-> {}, count |-> 0]
    /\ scan = NoScan
    /\ _scraper_state = [running |-> FALSE, summary |-> "None", error |-> "None"]
    /\ request = [r \in Requests |-> "none"]
    /\ thread = [r \in Requests |-> "none"]

Score ==
    /\ scoreOut = NotScored
    /\ scoreOut' = score(scoreIn)
    /\ UNCHANGED <<storeVars, scoreIn, pipeVars, apiVars>>

NextScore == Score

SpecScore == InitScore /\ [][NextScore]_vars

(***************************************************************************)
(* BaseScraper._match_keywords, on texts put together from phrases that    *)
(* hit one list, two lists, and one keyword that is in two lists.          *)
(***************************************************************************)
\* the keys of KEYWORDS in the order of the dict
KeywordTypes == <<"waterproofing", "tenant_improvements", "general_contracting", "government">>

\* [kw for kw in keywords if kw.lower() in text_lower]
matches(keywords, text_lower) ==
    SelectSeq(keywords, LAMBDA kw : Contains(text_lower, LowerStr(kw)))

\* a loop in which a later list with as many hits takes the type
RECURSIVE MatchLoop_LastWins(_, _, _, _, _)
MatchLoop_LastWins(ptypes, text_lower, best_type, best_count, all_matches) ==
    IF ptypes = <<>>
    THEN [project_type |-> best_type,
          keywords |-> { all_matches[i] : i \in 1..Len(all_matches) }]
    ELSE LET ptype == Head(ptypes)
             m == matches(KEYWORDS[ptype], text_lower)
         IN  IF Len(m) >= best_count /\ Len(m) > 0
             THEN MatchLoop_LastWins(Tail(ptypes), text_lower, ptype, Len(m), all_matches \o m)
             ELSE MatchLoop_LastWins(Tail(ptypes), text_lower, best_type, best_count, all_matches \o m)

\* the loop over KEYWORDS.items(), and list(set(all_matches)) at its end
RECURSIVE MatchLoop(_, _, _, _, _)
MatchLoop(ptypes, text_lower, best_type, best_count, all_matches) ==
    IF ptypes = <<>>
    THEN [project_type |-> best_type,
          keywords |-> { all_matches[i] : i \in 1..Len(all_matches) }]
    ELSE LET ptype == Head(ptypes)
             m == matches(KEYWORDS[ptype], text_lower)
         IN  IF Len(m) > best_count
             THEN MatchLoop(Tail(ptypes), text_lower, ptype, Len(m), all_matches \o m)
             ELSE MatchLoop(Tail(ptypes), text_lower, best_type, best_count, all_matches \o m)

_match_keywords(text) == MatchLoop(KeywordTypes, LowerStr(text), "general", 0, <<>>)

Phrases ==
    << <<"W","a","t","e","r","p","r","o","o","f","i","n","g">>,
       <<"T","E","N","A","N","T"," ","I","M","P","R","O","V","E","M","E","N","T">>,
       <<"R","o","o","f"," ","R","e","p","a","i","r">>,
       <<"I","F","B">>,
       <<"C","o","n","s","t","r","u","c","t","i","o","n"," ","S","e","r","v","i","c","e","s">>,
       <<"c","a","u","l","k","i","n","g">> >>

\* the phrases numbered in S, in their order, with a space between them
RECURSIVE JoinPhrases(_, _)
JoinPhrases(S, i) ==
    IF i > Len(Phrases) THEN <<>>
    ELSE IF i \in S
    THEN LET rest == JoinPhrases(S, i + 1)
         IN  IF rest = <<>> THEN Phrases[i] ELSE Phrases[i] \o <<" ">> \o rest
    ELSE JoinPhrases(S, i + 1)

Texts == { JoinPhrases(S, 1) : S \in SUBSET (1..Len(Phrases)) }

InitMatch ==
    /\ rows = {}
    /\ nextId = 1
    /\ lastrowid = 0
    /\ now = 0
    /\ updates = 0
    /\ op \in { [name |-> "text", text |-> t] : t \in Texts }
    /\ scoreIn = NotScored
    /\ scoreOut = NotScored
    /\ run = NoRun
    /\ search_runs = <<>>
    /\ changed = {}
    /\ previous = [scored |-> <<>>, keys |-> {}, count |-> 0]
    /\ scan = NoScan
    /\ _scraper_state = [running |-> FALSE, summary |-> "None", error |-> "None"]
    /\ request = [r \in Requests |-> "none"]
    /\ thread = [r \in Requests |-> "none"]

MatchKeywords ==
    /\ op.name = "text"
    /\ op' = [name |-> "_match_keywords", text |-> op.text, ret |-> _match_keywords(op.text)]
    /\ UNCHANGED <<rows, nextId, lastrowid, now, updates, scoreVars, pipeVars, apiVars>>

NextMatch == MatchKeywords

SpecMatch == InitMatch /\ [][NextMatch]_vars

(***************************************************************************)
(* Ingestion runs, with the user changing statuses in between.             *)
(***************************************************************************)
InitPipeline == Init

\* run_scrapers up to the store loop: a connection of its own, the scored
\* results, the floor
RunScrapers ==
    \E scored \in ScoredBatches :
        /\ run.pc = "idle"
        /\ run.n < MaxRuns
        /\ run' = [pc |-> "store", n |-> run.n + 1, scored |-> scored,
                   queue |-> quality_results(Listings(scored)),
                   upserted |-> <<>>, before |-> Keys(rows),
                   stored |-> Len(quality_results(Listings(scored))),
                   new_count |-> 0, dedup_count |-> 0,
                   total_found |-> 0, new_opportunities |-> 0]
        /\ lastrowid' = 0
        /\ op' = [name |-> "run_scrapers"]
        /\ UNCHANGED <<rows, nextId, now, updates, search_runs, changed, previous, scan,
                       scoreVars, apiVars>>

\* one turn of the store loop
StoreRecord ==
    /\ run.pc = "store"
    /\ run.queue # <<>>
    /\ LET res == upsert_opportunity(Head(run.queue))
       IN  /\ rows' = res.rows
           /\ nextId' = res.nextId
           /\ lastrowid' = res.lastrowid
           /\ now' = IF res.ret = -1 THEN now ELSE now + 1
           /\ op' = [name |-> "upsert_opportunity", ret |-> res.ret]
           /\ run' = [run EXCEPT !.queue = Tail(run.queue),
                                 !.upserted = Append(@, [bid |-> Head(run.queue), ret |-> res.ret]),
                                 !.new_count = IF CountsAsNew(res.ret) THEN @ + 1 ELSE @]
    /\ UNCHANGED <<updates, search_runs, changed, previous, scan, scoreVars, apiVars>>

\* db.deduplicate() called from inside the loop
DeduplicateStored_InLoop ==
    \E order \in ScoreDescOrders :
        /\ run.pc = "store"
        /\ rows' = deduplicate(order).rows
        /\ op' = [name |-> "deduplicate", ret |-> deduplicate(order).ret]
        /\ run' = [run EXCEPT !.pc = "log", !.dedup_count = deduplicate(order).ret]
        /\ UNCHANGED <<nextId, lastrowid, now, updates, search_runs, changed, previous, scan,
                       scoreVars, apiVars>>

\* db.deduplicate() after the loop
DeduplicateStored ==
    \E order \in ScoreDescOrders :
        /\ run.pc = "store"
        /\ run.queue = <<>>
        /\ rows' = deduplicate(order).rows
        /\ op' = [name |-> "deduplicate", ret |-> deduplicate(order).ret]
        /\ run' = [run EXCEPT !.pc = "log", !.dedup_count = deduplicate(order).ret]
        /\ UNCHANGED <<nextId, lastrowid, now, updates, search_runs, changed, previous, scan,
                       scoreVars, apiVars>>

\* the summary counts and db.log_search_run
LogSearchRun ==
    LET total_found == run.stored - run.dedup_count
        new_opportunities == IF run.new_count - run.dedup_count > 0
                             THEN run.new_count - run.dedup_count ELSE 0
    IN  /\ run.pc = "log"
        /\ search_runs' = Append(search_runs,
                                 [sources |-> scan.sources_searched, total_found |-> total_found,
                                  new_opportunities |-> run.new_count, errors |-> scan.errors])
        /\ run' = [run EXCEPT !.pc = "idle", !.total_found = total_found,
                              !.new_opportunities = new_opportunities,
                              !.scored = <<>>, !.upserted = <<>>, !.before = {}]
        /\ previous' = [scored |-> run.scored, keys |-> Keys(rows), count |-> Cardinality(rows)]
        /\ scan' = NoScan
        /\ op' = [name |-> "log_search_run"]
        /\ UNCHANGED <<rows, nextId, lastrowid, now, updates, changed, scoreVars, apiVars>>

\* the user sets the status of a listed row (POST /api/status)
UserUpdateStatus ==
    \E r \in rows, new_status \in Statuses :
        /\ updates < MaxUpdates
        /\ rows' = update_status(r.id, new_status, "")
        /\ updates' = updates + 1
        /\ now' = now + 1
        /\ changed' = IF new_status # "new"
                      THEN changed \cup {<<r.source, r.source_id>>}
                      ELSE changed \ {<<r.source, r.source_id>>}
        /\ op' = [name |-> "api_update_status", id |-> r.id, ret |-> "ok"]
        /\ UNCHANGED <<nextId, lastrowid, run, search_runs, previous, scan, scoreVars, apiVars>>

NextPipeline ==
    \/ RunScrapers
    \/ StoreRecord
    \/ DeduplicateStored
    \/ LogSearchRun
    \/ UserUpdateStatus

SpecPipeline == InitPipeline /\ [][NextPipeline]_vars

(***************************************************************************)
(* run_scrapers from its start: the loop over the sources under the time   *)
(* limit, each adapter called through _run_scraper_with_retry, then the    *)
(* scoring and the phases above.  An adapter is taken by what it does      *)
(* with the outcome of each fetch it makes.                                *)
(***************************************************************************)
max_retries == 2
backoff == 2

\* a wait twice as long
wait_Doubled(attempt) == backoff * attempt * 2

\* wait = backoff * attempt
wait(attempt) == backoff * attempt

MAX_TOTAL_SECONDS == 420

\* SOURCES: the keys configured, and whether each is enabled
SOURCES ==
    [sam_gov |-> TRUE, dodge_construction |-> FALSE, bidnet_direct |-> TRUE, eva |-> TRUE]

\* the sources asked for; one is disabled and one is not configured
Requested == <<"sam_gov", "dodge_construction", "bidnet_direct", "nope", "eva">>

RECURSIVE enabled_sources(_)
enabled_sources(sources) ==
    IF sources = <<>> THEN <<>>
    ELSE IF Head(sources) \in DOMAIN SOURCES /\ SOURCES[Head(sources)]
    THEN <<Head(sources)>> \o enabled_sources(Tail(sources))
    ELSE enabled_sources(Tail(sources))

\* what a fetch can come to: a response, an HTTP status raise_for_status
\* raises on, or a requests exception
FetchOutcomes == {"ok", "404", "403", "500", "ConnectionError", "Timeout"}

\* how long one call of an adapter can take, in seconds
Durations == {1, 421}

SamNull == Bid("sam_gov", "n2", None, "d1", "general", DueText, 50)

BidNetLow == Bid("bidnet_direct", "n1", TitleShort, "d1", "general", DueEmpty, 3)

\* the listings SAM.gov answers to the q-th query
SamListings(q) == IF q = 1 THEN <<BidA>> ELSE IF q = 2 THEN <<SamNull>> ELSE <<>>

\* SAMGovScraper.scrape: one fetch per query; 404 is no results, 403 and a
\* connection error are raised again, any other status and a timeout are
\* printed and the loop goes on
RECURSIVE SAMGovScraper_scrape(_, _, _, _)
SAMGovScraper_scrape(fetches, q, results, swallowed) ==
    IF q > Len(fetches)
    THEN [raised |-> "none", results |-> results, swallowed |-> swallowed]
    ELSE IF fetches[q] = "ok"
    THEN SAMGovScraper_scrape(fetches, q + 1, results \o SamListings(q), swallowed)
    ELSE IF fetches[q] = "404"
    THEN SAMGovScraper_scrape(fetches, q + 1, results, swallowed)
    ELSE IF fetches[q] \in {"403", "ConnectionError"}
    THEN [raised |-> fetches[q], results |-> results, swallowed |-> swallowed]
    ELSE SAMGovScraper_scrape(fetches, q + 1, results, TRUE)

\* BidNetScraper.scrape: one fetch of the bids page; 403 returns [], any
\* other failure propagates
BidNetScraper_scrape(fetches) ==
    IF fetches[1] = "ok"
    THEN [raised |-> "none", results |-> <<BidNetLow>>, swallowed |-> FALSE]
    ELSE IF fetches[1] = "403"
    THEN [raised |-> "none", results |-> <<>>, swallowed |-> TRUE]
    ELSE [raised |-> fetches[1], results |-> <<>>, swallowed |-> FALSE]

\* EVAScraper.scrape: one fetch through _fetch, whose errors propagate
EVAScraper_scrape(fetches) ==
    IF fetches[1] = "ok"
    THEN [raised |-> "none", results |-> <<BidB>>, swallowed |-> FALSE]
    ELSE [raised |-> fetches[1], results |-> <<>>, swallowed |-> FALSE]

\* the fetches an adapter can be answered with
FetchSeqs(source_key) ==
    IF source_key = "sam_gov" THEN [1..MaxQueries -> FetchOutcomes]
    ELSE [1..1 -> FetchOutcomes]

\* get_scraper(source_key, source_config).scrape()
scrape(source_key, fetches) ==
    IF source_key = "sam_gov" THEN SAMGovScraper_scrape(fetches, 1, <<>>, FALSE)
    ELSE IF source_key = "bidnet_direct" THEN BidNetScraper_scrape(fetches)
    ELSE EVAScraper_scrape(fetches)

\* what _run_scraper_with_retry returns once no attempt is left, and a
\* variant that hands on what the adapter had gathered
AttemptsExhausted_Partial(source_key, out) ==
    [results |-> out.results, error_msg |-> [source |-> source_key, error |-> out.raised]]

AttemptsExhausted(source_key, out) ==
    [results |-> <<>>, error_msg |-> [source |-> source_key, error |-> out.raised]]

\* enabled_sources[i-1:], and a variant that leaves out the source at hand
remaining_AfterCurrent(enabled, i) == SubSeq(enabled, i + 1, Len(enabled))

remaining(enabled, i) == SubSeq(enabled, i, Len(enabled))

\* sorted(opportunities, key=relevance_score, reverse=True): stable
RECURSIVE InsertByScore(_, _)
InsertByScore(sorted, b) ==
    IF sorted = <<>> THEN <<b>>
    ELSE IF Head(sorted).relevance_score >= b.relevance_score
    THEN <<Head(sorted)>> \o InsertByScore(Tail(sorted), b)
    ELSE <<b>> \o sorted

RECURSIVE score_opportunities(_)
score_opportunities(opportunities) ==
    IF opportunities = <<>> THEN <<>>
    ELSE InsertByScore(score_opportunities(SubSeq(opportunities, 1, Len(opportunities) - 1)),
                       opportunities[Len(opportunities)])

InitScan == Init

\* run_scrapers up to its loop
StartScan ==
    /\ run.pc = "idle"
    /\ run.n = 0
    /\ run' = [run EXCEPT !.pc = "scan", !.n = @ + 1, !.before = Keys(rows),
                          !.total_found = 0, !.new_opportunities = 0,
                          !.stored = 0, !.new_count = 0, !.dedup_count = 0]
    /\ scan' = [NoScan EXCEPT !.i = 1, !.enabled = enabled_sources(Requested)]
    /\ lastrowid' = 0
    /\ op' = [name |-> "run_scrapers"]
    /\ UNCHANGED <<rows, nextId, now, updates, search_runs, changed, previous, scoreVars, apiVars>>

\* the source at hand has been scanned: the bookkeeping of the loop body
ScannedSource(source_key, res, out, elapsed) ==
    [scan EXCEPT !.i = @ + 1, !.attempt = 1, !.elapsed = elapsed,
                 !.calls = Append(@, [source |-> source_key, raised |-> out.raised,
                                      late |-> scan.elapsed > MAX_TOTAL_SECONDS]),
                 !.swallowed = IF out.swallowed THEN @ \cup {source_key} ELSE @,
                 !.all_results = @ \o res.results,
                 !.sources_searched = Append(@, source_key),
                 !.by_source = Append(@, [source |-> source_key, found |-> Len(res.results)]),
                 !.errors = IF res.error_msg.error = "none" THEN @
                            ELSE Append(@, [kind |-> "failed", error_msg |-> res.error_msg])]

\* one attempt of _run_scraper_with_retry on the source at hand; the first
\* attempt follows the check of the time limit
ScrapeAttempt ==
    /\ run.pc = "scan"
    /\ scan.i <= Len(scan.enabled)
    /\ scan.attempt = 1 => scan.elapsed <= MAX_TOTAL_SECONDS
    /\ \E fetches \in FetchSeqs(scan.enabled[scan.i]), d \in Durations :
          LET source_key == scan.enabled[scan.i]
              out == scrape(source_key, fetches)
          IN  IF out.raised = "none"
              THEN /\ scan' = ScannedSource(source_key, [results |-> out.results,
                                                          error_msg |-> [source |-> source_key, error |-> "none"]],
                                            out, scan.elapsed + d)
              ELSE IF scan.attempt < max_retries
              THEN /\ scan' = [scan EXCEPT !.attempt = @ + 1,
                                           !.calls = Append(@, [source |-> source_key,
                                                                raised |-> out.raised,
                                                                late |-> scan.elapsed > MAX_TOTAL_SECONDS]),
                                           !.waits = Append(@, [source |-> source_key,
                                                                seconds |-> wait(scan.attempt)]),
                                           !.elapsed = @ + d + wait(scan.attempt)]
              ELSE /\ scan' = ScannedSource(source_key, AttemptsExhausted(source_key, out),
                                            out, scan.elapsed + d)
    /\ op' = [name |-> "scrape"]
    /\ UNCHANGED <<rows, nextId, lastrowid, now, updates, run, search_runs, changed, previous,
                   scoreVars, apiVars>>

\* the time limit is found passed at the head of the loop: the sources not
\* yet scanned go into one error entry, and the loop ends
TimeLimitReached ==
    /\ run.pc = "scan"
    /\ scan.i <= Len(scan.enabled)
    /\ scan.attempt = 1
    /\ scan.elapsed > MAX_TOTAL_SECONDS
    /\ scan' = [scan EXCEPT !.i = Len(scan.enabled) + 1,
                            !.errors = Append(@, [kind |-> "skipped",
                                                  sources |-> remaining(scan.enabled, scan.i)])]
    /\ op' = [name |-> "time_limit"]
    /\ UNCHANGED <<rows, nextId, lastrowid, now, updates, run, search_runs, changed, previous,
                   scoreVars, apiVars>>

\* score_opportunities and the floor.  The loop is left: what was noted of
\* its calls is dropped, the summary (sources_searched, by_source, errors)
\* stays
ScoreResults ==
    /\ run.pc = "scan"
    /\ scan.i > Len(scan.enabled)
    /\ LET scored == score_opportunities(scan.all_results)
       IN  run' = [run EXCEPT !.pc = "store", !.scored = scored,
                              !.queue = quality_results(Listings(scored)),
                              !.upserted = <<>>,
                              !.stored = Len(quality_results(Listings(scored)))]
    /\ scan' = [scan EXCEPT !.elapsed = 0, !.calls = <<>>, !.waits = <<>>,
                            !.swallowed = {}, !.all_results = <<>>]
    /\ op' = [name |-> "score_opportunities"]
    /\ UNCHANGED <<rows, nextId, lastrowid, now, updates, search_runs, changed, previous,
                   scoreVars, apiVars>>

NextScan ==
    \/ StartScan
    \/ ScrapeAttempt
    \/ TimeLimitReached
    \/ ScoreResults
    \/ StoreRecord
    \/ DeduplicateStored
    \/ LogSearchRun

SpecScan == InitScan /\ [][NextScan]_vars

(***************************************************************************)
(* POST /api/run and the background thread.  The handler runs to its end   *)
(* in one step; the thread it starts runs on its own.                      *)
(***************************************************************************)
InitApi == Init

ApiRun ==
    \E r \in Requests, authorized \in BOOLEAN :
        /\ request[r] = "none"
        /\ IF ~authorized
           THEN /\ request' = [request EXCEPT ![r] = "unauthorized"]
                /\ UNCHANGED thread
           ELSE IF _scraper_state.running
           THEN /\ request' = [request EXCEPT ![r] = "already_running"]
                /\ UNCHANGED thread
           ELSE /\ request' = [request EXCEPT ![r] = "started"]
                /\ thread' = [thread EXCEPT ![r] = "started"]
        /\ UNCHANGED <<storeVars, scoreVars, pipeVars, _scraper_state>>

\* _run_scraper_background, its first four statements
ThreadEnter ==
    \E t \in Requests :
        /\ thread[t] = "started"
        /\ _scraper_state' = [running |-> TRUE, summary |-> "None", error |-> "None"]
        /\ thread' = [thread EXCEPT ![t] = "running"]
        /\ UNCHANGED <<storeVars, scoreVars, pipeVars, request>>

\* run_scrapers returns its summary, or raises
ThreadRunScrapers ==
    \E t \in Requests, raised \in BOOLEAN :
        /\ thread[t] = "running"
        /\ _scraper_state' = IF raised
                             THEN [_scraper_state EXCEPT !.error = "error"]
                             ELSE [_scraper_state EXCEPT !.summary = "summary"]
        /\ thread' = [thread EXCEPT ![t] = "finishing"]
        /\ UNCHANGED <<storeVars, scoreVars, pipeVars, request>>

\* the outer finally
ThreadFinally ==
    \E t \in Requests :
        /\ thread[t] = "finishing"
        /\ _scraper_state' = [_scraper_state EXCEPT !.running = FALSE]
        /\ thread' = [thread EXCEPT ![t] = "done"]
        /\ UNCHANGED <<storeVars, scoreVars, pipeVars, request>>

\* GET /api/run/status: what a poll reads
ApiRunStatus ==
    /\ op' = [name |-> "api_run_status", running |-> _scraper_state.running,
              summary |-> _scraper_state.summary, error |-> _scraper_state.error]
    /\ UNCHANGED <<rows, nextId, lastrowid, now, updates, scoreVars, pipeVars, apiVars>>

NextApi ==
    \/ ApiRun
    \/ ThreadEnter
    \/ ThreadRunScrapers
    \/ ThreadFinally
    \/ ApiRunStatus

SpecApi == InitApi /\ [][NextApi]_vars

(***************************************************************************)
(* Properties of the store.                                                *)
(***************************************************************************)
\* the step is the upsert of bid
UpsertStep(bid) ==
    /\ op'.name = "upsert_opportunity"
    /\ rows' = upsert_opportunity(bid).rows
    /\ op'.ret = upsert_opportunity(bid).ret
    /\ nextId' = upsert_opportunity(bid).nextId

\* C2: an upsert of a record whose (source, source_id) is stored overwrites
\* title, description, due_date, relevance_score and updated_at of that row
\* and nothing else: its id, status, notes and the other columns keep their
\* values, and no other row changes.
UpsertOverwritesOnlyPayload ==
    [][\A bid \in Bids : \A r \in rows :
          (UpsertStep(bid) /\ bid.title # None /\ SameKey(r, bid)) =>
             \E r2 \in rows' :
                /\ r2.id = r.id
                /\ r2.source = r.source
                /\ r2.source_id = r.source_id
                /\ r2.project_type = r.project_type
                /\ r2.status = r.status
                /\ r2.notes = r.notes
                /\ r2.title = bid.title
                /\ r2.description = bid.description
                /\ r2.due_date = bid.due_date
                /\ r2.relevance_score = bid.relevance_score
                /\ r2.updated_at = now
                /\ rows' \ {r2} = rows \ {r}]_vars

\* a reviewed row with notes, inserted as a waterproofing listing due
\* yesterday, has just been resubmitted with another due date
ReviewedRowResubmitted ==
    /\ op.name = "upsert_opportunity"
    /\ \E r \in rows :
          /\ r.status = "reviewed"
          /\ r.notes = "call back"
          /\ r.project_type = "waterproofing"
          /\ r.due_date = DueIsoToday
          /\ r.updated_at = now - 1
          /\ r.updated_at > 0

\* C3: in every reachable state of the store there is at most one row per
\* (source, source_id); submitting a record whose key is already stored
\* never adds a second row for that key.
OneRowPerKey ==
    \A r1 \in rows : \A r2 \in rows :
        (r1.source = r2.source /\ r1.source_id = r2.source_id) => r1 = r2

\* an upsert has just met a stored row with its key: the statement took a
\* value of the id sequence and no row carries it
UpsertMetStoredKey ==
    /\ op.name = "upsert_opportunity"
    /\ op.ret # -1
    /\ \A r \in rows : r.id # nextId - 1
    /\ rows # {}

\* the rows that deduplicate compares with r
TitleGroup(r) == { x \in rows : NormalizedTitle[x.title] = NormalizedTitle[r.title] }

DistinctScores(g) ==
    \A x \in g : \A y \in g : x # y => x.relevance_score # y.relevance_score

\* C5: of every group of rows that share a normalized title of at least
\* MinDedupLen characters and have different scores, deduplicate keeps the
\* highest-scored row and deletes the others; it adds and changes no row and
\* returns the number of rows it deleted.
DedupKeepsHighestScored ==
    [][op'.name = "deduplicate" =>
          /\ rows' \subseteq rows
          /\ op'.ret = Cardinality(rows \ rows')
          /\ \A r \in rows :
               (Len(NormalizedTitle[r.title]) >= MinDedupLen
                   /\ DistinctScores(TitleGroup(r))) =>
                 (r \in rows' <=>
                    \A x \in TitleGroup(r) : x.relevance_score <= r.relevance_score)]_vars

\* deduplicate has just deleted the lower-scored of two listings of one
\* solicitation
DedupDeletedLowerScored ==
    /\ op.name = "deduplicate"
    /\ op.ret = 1
    /\ \E r \in rows : r.title = TitleA2 /\ r.relevance_score = 65
    /\ \A r \in rows : r.relevance_score # 40

\* the date a due_date text denotes in one of the formats the claim names
ClaimedDate(due) ==
    LET iso == strptime(Prefix(due, 10), "%Y-%m-%d")
        us == strptime(Prefix(due, 10), "%m/%d/%Y")
    IN  IF iso # NoDate THEN iso ELSE us

\* C8: remove_expired deletes exactly the rows with status 'new' whose
\* due_date parses (ISO or MM/DD/YYYY) to a date before today, retains every
\* other row (also those with an empty or unparseable due_date) and returns
\* the number of rows deleted.
RemoveExpiredDeletesExactlyPastDue ==
    [][op'.name = "remove_expired" =>
          /\ rows' = { r \in rows :
                         ~(/\ r.status = "new"
                           /\ ClaimedDate(r.due_date) # NoDate
                           /\ DateLess(ClaimedDate(r.due_date), Today)) }
          /\ op'.ret = Cardinality(rows \ rows')]_vars

\* C9: update_status succeeds when a row with the id exists and signals
\* NotFound to its caller, changing nothing, when no row has the id.
UpdateStatusSignalsNotFound ==
    [][(op'.name \in {"update_status", "api_update_status"} /\ op'.ret # "400") =>
          IF \E r \in rows : r.id = op'.id
          THEN op'.ret \in {"None", "ok"}
          ELSE op'.ret = "NotFound" /\ rows' = rows]_vars

\* C10: upsert_opportunity returns the id of the row it inserted or, on a
\* (source, source_id) conflict, of the stored row it updated; it returns -1
\* only when the write failed.
UpsertReturnsAffectedRowId ==
    [][\A bid \in Bids :
          UpsertStep(bid) =>
             IF bid.title = None
             THEN op'.ret = -1 /\ rows' = rows
             ELSE \E r \in rows' : SameKey(r, bid) /\ op'.ret = r.id]_vars

\* the threads that are executing _run_scraper_background
Executing == { t \in Requests : thread[t] \in {"running", "finishing"} }

\* C1: at most one background run executes at a time, whatever the
\* interleaving of start-run requests
AtMostOneRunExecuting == Cardinality(Executing) <= 1

\* C4: a listing whose status the user changed away from 'new' is never
\* stored with status 'new' again
ChangedStatusNeverReset ==
    \A r \in rows : <<r.source, r.source_id>> \in changed => r.status # "new"

\* C6: the score is in 0..100, is the sum of the five sub-scores, and each
\* sub-score is within its cap
ScoreIsSumWithinCaps ==
    scoreOut # NotScored =>
        /\ scoreOut.total \in 0..100
        /\ scoreOut.total = scoreOut.keywords + scoreOut.location + scoreOut.budget
                              + scoreOut.deadline + scoreOut.set_aside
        /\ scoreOut.keywords \in 0..30
        /\ scoreOut.location \in 0..25
        /\ scoreOut.budget \in 0..20
        /\ scoreOut.deadline \in 0..15
        /\ scoreOut.set_aside \in 0..10

\* a record with more keyword matches than the cap pays for has reached
\* every cap
AllCapsReached ==
    /\ scoreOut # NotScored
    /\ scoreIn.keyword_matches = 8
    /\ scoreOut.keywords = 30
    /\ scoreOut.total = 100

\* C7: the budget sub-score by the place of the value range (min, or 0
\* when only max is given, to max, or min when only min is given): 0 with
\* no value fields, 20 inside [50000, 2500000], 14 overlapping it, 6 under
\* it and above 20000, 8 over it and below 5000000, else 0
BudgetScoreByRange ==
    scoreOut # NotScored =>
        LET lo == IF scoreIn.estimated_value_min = NoValue THEN 0 ELSE scoreIn.estimated_value_min
            hi == IF scoreIn.estimated_value_max = NoValue THEN lo ELSE scoreIn.estimated_value_max
        IN  scoreOut.budget =
              IF scoreIn.estimated_value_min = NoValue /\ scoreIn.estimated_value_max = NoValue
              THEN 0
              ELSE IF 50000 <= lo /\ hi <= 2500000 THEN 20
              ELSE IF lo <= 2500000 /\ hi >= 50000 THEN 14
              ELSE IF hi < 50000 /\ hi > 20000 THEN 6
              ELSE IF lo > 2500000 /\ lo < 5000000 THEN 8
              ELSE 0

\* a range that is exactly the target range has the full budget points
TargetRangeScored ==
    /\ scoreOut # NotScored
    /\ scoreIn.estimated_value_min = 50000
    /\ scoreIn.estimated_value_max = 2500000
    /\ scoreOut.budget = 20

\* the step on which run_scrapers writes its log row and returns
RunReturns == run.pc = "log" /\ run'.pc = "idle"

\* the records handed to upsert_opportunity so far in the run
RECURSIVE BidsOf(_)
BidsOf(us) == IF us = <<>> THEN <<>> ELSE <<Head(us).bid>> \o BidsOf(Tail(us))

AtOrAboveFloor(b) == b.relevance_score >= 5

\* C15: no record below the floor is passed to upsert_opportunity, and the
\* records at or above it are passed once each, in their order
FloorDiscard ==
    /\ \A i \in 1..Len(run.upserted) : run.upserted[i].bid.relevance_score >= 5
    /\ run.pc \in {"store", "log"} =>
         BidsOf(run.upserted) \o run.queue = SelectSeq(Listings(run.scored), AtOrAboveFloor)
    /\ run.pc = "log" => run.queue = <<>>

\* a run whose results had a record under the floor has stored the others
LowRecordDiscarded ==
    /\ run.pc = "log"
    /\ \E i \in 1..Len(run.scored) : run.scored[i].relevance_score < 5
    /\ Len(run.upserted) >= 1
    /\ Len(run.upserted) < Len(run.scored)

\* the keys of the records the run passed to the store
RunKeys == { <<u.bid.source, u.bid.source_id>> : u \in { run.upserted[i] : i \in 1..Len(run.upserted) } }

\* C16: total_found is the number of the run's records at or above the floor
\* that are in the store after deduplicate
TotalFoundIsStoredCount ==
    [][RunReturns => run'.total_found = Cardinality(Keys(rows) \cap RunKeys)]_vars

\* C17: new_opportunities, in the summary and in the search_runs row, is the
\* number of records this run inserted for the first time that are left
\* after deduplicate
NewCountIsFirstInserted ==
    [][RunReturns =>
         LET first == Cardinality((Keys(rows) \cap RunKeys) \ run.before)
         IN  /\ run'.new_opportunities = first
             /\ search_runs'[Len(search_runs')].new_opportunities = first]_vars

\* C18: a run on the results of the run before leaves the keys and the
\* number of rows that run left
RerunKeepsKeys ==
    [][RunReturns /\ run.scored = previous.scored =>
         /\ Keys(rows) = previous.keys
         /\ Cardinality(rows) = previous.count]_vars

\* the second of two runs on the same results, one of them with a generated
\* source_id, has deduplicated
SameResultsStoredAgain ==
    /\ run.pc = "log"
    /\ run.scored = previous.scored
    /\ \E i \in 1..Len(run.scored) : run.scored[i].source_id = ""
    /\ rows # {}

\* C20: a failed write leaves the run going: the record is not counted as
\* new, the records after it are passed to the store, and every run that
\* has returned has written its log row
WriteFailureDoesNotAbort ==
    /\ run.pc \in {"store", "log"} =>
         run.new_count = Cardinality({ i \in 1..Len(run.upserted) : run.upserted[i].ret > 0 })
    /\ run.pc = "log" => Len(run.upserted) = run.stored
    /\ run.pc = "idle" => Len(search_runs) = run.n

\* a run in which a write failed and the next record was stored has
\* deduplicated
StoredAfterFailedWrite ==
    /\ run.pc = "log"
    /\ \E i \in 1..(Len(run.upserted) - 1) :
          /\ run.upserted[i].ret = -1
          /\ run.upserted[i + 1].ret > 0

\* the failures the retry is meant for: network, timeout, 5xx
SourceUnavailable == {"ConnectionError", "Timeout", "500"}

\* C11: an adapter that fails with 403, or with anything that is not of the
\* SourceUnavailable kind, is not called again for that source
RetryOnlyWhenUnavailable ==
    \A k \in 1..Len(scan.calls) :
        scan.calls[k].raised \notin (SourceUnavailable \cup {"none"}) =>
            \A j \in 1..Len(scan.calls) : j > k => scan.calls[j].source # scan.calls[k].source

\* the enabled sources among those asked for
EnabledRequested ==
    { Requested[i] : i \in { j \in 1..Len(Requested) :
                               Requested[j] \in DOMAIN SOURCES /\ SOURCES[Requested[j]] } }

LoopLeft == \/ run.pc = "scan" /\ scan.i > Len(scan.enabled)
            \/ run.pc \in {"store", "log"} /\ scan.i > 0

\* how often a source is named in the summary: as searched, and as skipped
TimesSearched(s) ==
    Cardinality({ i \in 1..Len(scan.sources_searched) : scan.sources_searched[i] = s })

TimesCounted(s) ==
    Cardinality({ i \in 1..Len(scan.by_source) : scan.by_source[i].source = s })

TimesSkipped(s) ==
    Cardinality({ p \in { <<i, j>> : i \in 1..Len(scan.errors), j \in 1..Len(Requested) } :
                    /\ scan.errors[p[1]].kind = "skipped"
                    /\ p[2] <= Len(scan.errors[p[1]].sources)
                    /\ scan.errors[p[1]].sources[p[2]] = s })

SourcesAccounted ==
    LoopLeft =>
        /\ \A s \in EnabledRequested :
              /\ TimesSearched(s) + TimesSkipped(s) = 1
              /\ TimesCounted(s) = TimesSearched(s)
        /\ \A i \in 1..Len(scan.sources_searched) : scan.sources_searched[i] \in EnabledRequested

\* C12 as stated: every enabled source asked for is in the summary once,
\* searched or skipped, and no adapter is called once the limit is passed
NoAdapterCallPastLimit ==
    /\ SourcesAccounted
    /\ \A k \in 1..Len(scan.calls) : ~scan.calls[k].late

\* C12, with the limit looked at between sources only: every enabled source
\* asked for is in the summary once, searched or skipped, and no source is
\* begun once the limit is passed; a call past the limit is a retry of the
\* source at hand
NoSourceBegunPastLimit ==
    /\ SourcesAccounted
    /\ \A k \in 1..Len(scan.calls) :
          scan.calls[k].late =>
              /\ k > 1
              /\ scan.calls[k - 1].source = scan.calls[k].source
              /\ scan.calls[k - 1].raised # "none"

\* the loop was left at the limit with a source searched and a source skipped
SourcesSkippedAtLimit ==
    /\ run.pc = "scan"
    /\ scan.i > Len(scan.enabled)
    /\ Len(scan.sources_searched) >= 1
    /\ \E i \in 1..Len(scan.errors) :
          scan.errors[i].kind = "skipped" /\ Len(scan.errors[i].sources) >= 1

FailedSources ==
    { scan.errors[i].error_msg.source :
        i \in { j \in 1..Len(scan.errors) : scan.errors[j].kind = "failed" } }

Position(s) == CHOOSE i \in 1..Len(scan.enabled) : scan.enabled[i] = s

FetchFailuresPropagate == scan.swallowed = {}

\* C19: the record 'Waterproofing and Building Envelope Repair - County
\* Garage' in Fairfax County, without a value, due in 10 days and set aside
\* for small business scores keyword 30, location 25, budget 0, deadline 11
\* and set-aside 10, 76 in all
ExampleScores76 ==
    scoreIn = ExampleRecord /\ scoreOut # NotScored =>
        /\ scoreOut.keywords = 30
        /\ scoreOut.location = 25
        /\ scoreOut.budget = 0
        /\ scoreOut.deadline = 11
        /\ scoreOut.set_aside = 10
        /\ scoreOut.total = 76

\* the workflow statuses
WorkflowStatuses == {"new", "reviewed", "bid", "no_bid", "awarded"}

\* C21: every stored row's status is one of new, reviewed, bid, no_bid,
\* awarded, whatever upserts and status requests came before
StatusInWorkflow == \A r \in rows : r.status \in WorkflowStatuses

\* the columns of a row that a status update has no business with
KeptColumns(r) ==
    [id |-> r.id, title |-> r.title, source |-> r.source, source_id |-> r.source_id,
     description |-> r.description, project_type |-> r.project_type,
     due_date |-> r.due_date, relevance_score |-> r.relevance_score]

\* C30: a status update changes status and updated_at of the row with the
\* given id and nothing in any other row; a request through /api/status,
\* which supplies no notes, leaves the row's notes as they were
StatusUpdateChangesOnlyTarget ==
    [][op'.name \in {"update_status", "api_update_status"} /\ op'.ret # "400" =>
          \A r \in rows :
              /\ r.id # op'.id => r \in rows'
              /\ r.id = op'.id =>
                    \E q \in rows' :
                        /\ KeptColumns(q) = KeptColumns(r)
                        /\ op'.name = "api_update_status" => q.notes = r.notes]_vars

\* C22: search returns only rows that satisfy every filter given, at most
\* `limit` of them, in descending order of score and, within one score, in
\* ascending order of due date with the rows without a due date last
SearchFilteredAndOrdered ==
    op.name = "search" =>
        LET f == op.args
            ret == op.ret
        IN  /\ \A i \in 1..Len(ret) :
                  /\ f.project_type # "" => ret[i].project_type = f.project_type
                  /\ f.min_score > 0 => ret[i].relevance_score >= f.min_score
                  /\ f.status # "" => ret[i].status = f.status
                  /\ f.source # "" => ret[i].source = f.source
                  /\ f.keyword # <<>> =>
                        \/ Contains(LowerStr(ret[i].title), LowerStr(f.keyword))
                        \/ Contains(DescriptionText[ret[i].description], LowerStr(f.keyword))
            /\ Len(ret) <= f.limit
            /\ \A i \in 1..Len(ret) : \A j \in 1..Len(ret) :
                  i < j =>
                      /\ ret[i].relevance_score >= ret[j].relevance_score
                      /\ ret[i].relevance_score = ret[j].relevance_score =>
                            /\ ret[i].due_date = <<>> => ret[j].due_date = <<>>
                            /\ ret[i].due_date # <<>> /\ ret[j].due_date # <<>> =>
                                  ~StrLess(ret[j].due_date, ret[i].due_date)

BoundedRetryWithBackoff ==
    run.pc = "scan" =>
        \A s \in EnabledRequested :
            LET OfS(c) == c.source = s
                cs == SelectSeq(scan.calls, OfS)
                ws == SelectSeq(scan.waits, OfS)
                failed == Cardinality({ k \in 1..Len(cs) : cs[k].raised # "none" })
                errs == Cardinality({ i \in 1..Len(scan.errors) :
                                        scan.errors[i].kind = "failed"
                                        /\ scan.errors[i].error_msg.source = s })
            IN  /\ Len(cs) <= 2
                /\ \A k \in 1..Len(cs) : cs[k].raised = "none" => k = Len(cs)
                /\ Len(ws) = (IF failed < 1 THEN failed ELSE 1)
                /\ \A k \in 1..Len(ws) : ws[k].seconds = 2 * k
                /\ TimesSearched(s) = 0 => errs = 0
                /\ TimesSearched(s) = 1 =>
                      /\ Len(cs) >= 1
                      /\ cs[Len(cs)].raised = "none" => errs = 0
                      /\ cs[Len(cs)].raised # "none" =>
                            /\ Len(cs) = 2
                            /\ errs = 1
                            /\ \A i \in 1..Len(scan.by_source) :
                                  scan.by_source[i].source = s => scan.by_source[i].found = 0

\* a source failed once, was waited for and then succeeded, and another
\* source failed twice
RetriedThenSucceeded ==
    /\ run.pc = "scan"
    /\ \E k \in 1..(Len(scan.calls) - 1) :
          /\ scan.calls[k].source = scan.calls[k + 1].source
          /\ scan.calls[k].raised # "none"
          /\ scan.calls[k + 1].raised = "none"
    /\ \E k \in 1..(Len(scan.calls) - 1) :
          /\ scan.calls[k].source = scan.calls[k + 1].source
          /\ scan.calls[k + 1].raised # "none"

\* the calendar days from today to the due date of each record scored
DaysToDue ==
    [d \in DueCases |->
        LET due == ParseDue(d.due_date)
        IN  IF d.due_date = <<>> \/ due = NoDate
            THEN [dated |-> FALSE, days |-> 0]
            ELSE [dated |-> TRUE, days |-> toordinal(due) - toordinal(Today)]]

\* C25: the deadline score is 0 without a due date that parses and for a due
\* date already past; for a record due today or later it is not 0: 3 with
\* fewer than 3 days left, 7 under 7, 11 under 14, 15 under 30, 13 from 30 on
DeadlineScoreByDaysLeft ==
    scoreOut # NotScored =>
        LET d == DaysToDue[DueOf(scoreIn)]
            left == d.days - (IF scoreIn.clock > 0 THEN 1 ELSE 0)
        IN  /\ ~d.dated \/ d.days < 0 => scoreOut.deadline = 0
            /\ d.dated /\ d.days >= 0 => scoreOut.deadline # 0
            /\ d.dated /\ left >= 0 =>
                  scoreOut.deadline = (IF left < 3 THEN 3
                                       ELSE IF left < 7 THEN 7
                                       ELSE IF left < 14 THEN 11
                                       ELSE IF left < 30 THEN 15
                                       ELSE 13)

\* C26: after deduplicate no two rows left share a normalized title of at
\* least 20 characters; no row with a shorter normalized title was deleted;
\* and for each row deleted a row is left that has the same normalized
\* title and a score at least as high
DedupLeavesOnePerTitle ==
    [][op'.name = "deduplicate" =>
          /\ \A q \in rows' : \A r \in rows' :
                q # r /\ Len(NormalizedTitle[q.title]) >= 20 =>
                    NormalizedTitle[q.title] # NormalizedTitle[r.title]
          /\ \A r \in rows \ rows' :
                /\ Len(NormalizedTitle[r.title]) >= 20
                /\ \E k \in rows' :
                      /\ k \in rows
                      /\ NormalizedTitle[k.title] = NormalizedTitle[r.title]
                      /\ k.relevance_score >= r.relevance_score]_vars

\* deduplicate has run on two rows that share a short title and has left both
ShortTitlesLeftByDedup ==
    /\ op.name = "deduplicate"
    /\ \E q \in rows : \E r \in rows :
          q # r /\ q.title = TitleShort /\ r.title = TitleShort

\* the hits of a text in one list, and the keywords of any list it holds
HitsOfType(ptype, text_lower) ==
    Cardinality({ i \in 1..Len(KEYWORDS[ptype]) :
                    Contains(text_lower, LowerStr(KEYWORDS[ptype][i])) })

KeywordsIn(text_lower) ==
    UNION { { KEYWORDS[KeywordTypes[p]][i] :
                i \in { j \in 1..Len(KEYWORDS[KeywordTypes[p]]) :
                          Contains(text_lower, LowerStr(KEYWORDS[KeywordTypes[p]][j])) } } :
            p \in 1..Len(KeywordTypes) }

\* C27: the project type returned is the list with the most hits in the
\* text, the first such list in the order waterproofing,
\* tenant_improvements, general_contracting, government, and 'general'
\* without a hit; the keywords returned are the set of the keywords of any
\* list that occur in the text
BestTypeAndAllMatches ==
    op.name = "_match_keywords" =>
        LET text_lower == LowerStr(op.text)
            hits == [p \in 1..4 |-> HitsOfType(KeywordTypes[p], text_lower)]
        IN  /\ KeywordTypes = <<"waterproofing", "tenant_improvements",
                                "general_contracting", "government">>
            /\ (\A p \in 1..4 : hits[p] = 0) => op.ret.project_type = "general"
            /\ \A p \in 1..4 :
                  (/\ hits[p] > 0
                   /\ \A q \in 1..4 : hits[q] <= hits[p]
                   /\ \A q \in 1..4 : q < p => hits[q] < hits[p])
                      => op.ret.project_type = KeywordTypes[p]
            /\ op.ret.keywords = KeywordsIn(text_lower)

\* a text in which two lists have the most hits, with a keyword that is in
\* two lists, has been matched
TiedListsMatched ==
    /\ op.name = "_match_keywords"
    /\ op.ret.project_type = "general_contracting"
    /\ HitsOfType("general_contracting", LowerStr(op.text))
           = HitsOfType("government", LowerStr(op.text))
    /\ Cardinality(op.ret.keywords) = 1

\* C28: when a background run ends, running is False and exactly one of
\* summary and error is set
RunEndsWithSummaryOrError ==
    [][\A t \in Requests :
          thread[t] = "finishing" /\ thread'[t] = "done" =>
              /\ ~_scraper_state'.running
              /\ (_scraper_state'.summary # "None") # (_scraper_state'.error # "None")]_vars

\* the runs answered with 'started' that have not finished
Accepted == { r \in Requests : request[r] = "started" /\ thread[r] # "done" }

\* C29: while a run that was answered with 'started' has not finished, a
\* status poll reads running = true
PollSeesAcceptedRunRunning ==
    [][op'.name = "api_run_status" /\ UNCHANGED apiVars /\ Accepted # {} => op'.running]_vars

====
